---- MODULE Spec2Model ----
(***************************************************************************)
(* A model of the EODHD MCP server: the Tool Surface (server.py), the API   *)
(* Client with its bounded retry loop (api_client.py), the error taxonomy   *)
(* (exceptions.py) and the Data Processor's pure functions                  *)
(* (data_processor.py).                                                     *)
(*                                                                          *)
(* Spec        one tool invocation, from input validation to the returned   *)
(*             string, with every upstream outcome of every HTTP request.   *)
(* SpecVolume  one call of DataProcessor.calculate_average_volume.          *)
(* SpecTrend   one call of DataProcessor._determine_trend.                  *)
(* SpecEod     one call of DataProcessor.process_eod_data.                  *)
(* SpecIndex   EODHDClient.get_index_components on a decoded response,      *)
(*             followed by DataProcessor.process_index_components.          *)
(* SpecComponents    one call of DataProcessor.process_index_components.    *)
(* SpecFundamentals  DataProcessor.process_fundamentals_data followed by    *)
(*             format_for_display(..., 'fundamentals').                     *)
(* SpecConfig  the construction of a Config from an environment, and get.   *)
(* SpecDates   process_eod_data and process_earnings_data on the same dates.*)
(* SpecTogether  two tool invocations interleaved at their await points.    *)
(* SpecFair    Spec under the event loop's scheduling.                      *)
(***************************************************************************)
EXTENDS Integers, Sequences, FiniteSets, TLC

(***************************************************************************)
(* Bounds of the exploration.                                               *)
(***************************************************************************)
\* largest configured max_retries explored (MAX_RETRIES is any integer text)
MaxRetriesBound == 4
\* longest run of free characters in front of a tool's string input
MaxPre == 2
\* most rows of a table given to calculate_average_volume
MaxRows == 3
\* largest period requested of calculate_average_volume
MaxPeriod == 3
\* longest series given to _determine_trend
MaxSeries == 4
\* most records given to process_eod_data
MaxRecords == 3
\* entries of a components mapping, records of a components sequence
MaxEntries == 2
\* rows of a components table
MaxComponents == 3
\* config.max_retries when invocations run together
MaxRetriesTogether == 2

(***************************************************************************)
(* Strings are sequences of one-character strings.                          *)
(***************************************************************************)
Space == " "
Whitespace == {Space}
FreeChars == {Space, "a"}
SuffixUpper == <<".", "I", "N", "D", "X">>
SuffixLower == <<".", "i", "n", "d", "x">>

\* str.upper() on one character
UpperChar(c) ==
    CASE c = "a" -> "A"
      [] c = "i" -> "I"
      [] c = "n" -> "N"
      [] c = "d" -> "D"
      [] c = "x" -> "X"
      [] OTHER -> c

\* str.upper()
upper(s) == [k \in 1..Len(s) |-> UpperChar(s[k])]

RECURSIVE lstrip(_)
lstrip(s) == IF s # <<>> /\ Head(s) \in Whitespace THEN lstrip(Tail(s)) ELSE s

RECURSIVE rstrip(_)
rstrip(s) ==
    IF s # <<>> /\ s[Len(s)] \in Whitespace
    THEN rstrip(SubSeq(s, 1, Len(s) - 1))
    ELSE s

\* str.strip()
strip(s) == lstrip(rstrip(s))

\* str.endswith(suffix)
endswith(s, suffix) ==
    /\ Len(s) >= Len(suffix)
    /\ SubSeq(s, Len(s) - Len(suffix) + 1, Len(s)) = suffix

RECURSIVE SeqsUpTo(_, _)
SeqsUpTo(S, n) ==
    IF n = 0 THEN {<<>>}
    ELSE LET shorter == SeqsUpTo(S, n - 1)
         IN shorter \cup {Append(s, c) : s \in shorter, c \in S}

\* the string inputs explored: free characters, then perhaps an index suffix in
\* either case
InputStrings ==
    {pre \o suf :
        pre \in SeqsUpTo(FreeChars, MaxPre),
        suf \in {<<>>, SuffixUpper, SuffixLower}}

\* the values of RATE_LIMIT_DELAY explored, in time units
RateLimitDelays == {1, 3}

(***************************************************************************)
(* The error taxonomy (exceptions.py) and Python's built-in roots.          *)
(***************************************************************************)
\* status_code of an error that carries none (Python's None)
NoStatus == 0

\* class -> direct base class
Parent ==
    [EODHDError |-> "Exception",
     APIError |-> "EODHDError",
     AuthenticationError |-> "APIError",
     RateLimitError |-> "APIError",
     DataNotFoundError |-> "APIError",
     NetworkError |-> "EODHDError",
     ConfigurationError |-> "EODHDError",
     DataProcessingError |-> "EODHDError",
     InvalidURL |-> "Exception",
     Exception |-> "BaseException"]

RECURSIVE IsInstance(_, _)
\* isinstance(e, k) for an exception of class cls
IsInstance(cls, k) ==
    \/ cls = k
    \/ cls \in DOMAIN Parent /\ IsInstance(Parent[cls], k)

\* an exception object; status_code is what APIError.__init__ stores
MakeError(cls, status, msg) == [cls |-> cls, status_code |-> status, message |-> msg]

\* no exception pending
NoExc == MakeError("None", NoStatus, "")

(***************************************************************************)
(* Upstream: what one client.get can produce.                               *)
(***************************************************************************)
Statuses == {200, 400, 401, 404, 429, 500}

\* decoded bodies of a response below 400:
\*   not_json   the body does not parse as JSON
\*   empty      a JSON value that is falsy ([] or {})
\*   data       a JSON value the Data Processor accepts
\*   sparse     as data, but a fundamentals payload without Highlights
\*   malformed  a JSON value the Data Processor fails on
Bodies == {"not_json", "empty", "data", "sparse", "malformed"}

\* the responses client.get can return (an error page is no JSON)
Upstream ==
    {[kind |-> "response", status_code |-> s, body |-> b] :
        s \in {x \in Statuses : x < 400}, b \in Bodies}
    \cup {[kind |-> "response", status_code |-> s, body |-> "not_json"] :
        s \in {x \in Statuses : x >= 400}}

\* client.get raised instead of returning: the entry kept in the history
Failure(kind) == [kind |-> kind, status_code |-> NoStatus, body |-> "none"]

(***************************************************************************)
(* API Client: response classification and the retry conditions.            *)
(***************************************************************************)
\* _handle_response with a body that is no JSON reported as a network failure
_handle_response_ParseAsNetwork(response) ==
    IF response.status_code = 401
    THEN [raised |-> TRUE, value |-> "none",
          exc |-> MakeError("AuthenticationError", response.status_code, "Invalid API key")]
    ELSE IF response.status_code = 429
    THEN [raised |-> TRUE, value |-> "none",
          exc |-> MakeError("RateLimitError", response.status_code, "API rate limit exceeded")]
    ELSE IF response.status_code = 404
    THEN [raised |-> TRUE, value |-> "none",
          exc |-> MakeError("DataNotFoundError", response.status_code, "Data not found")]
    ELSE IF response.status_code >= 400
    THEN [raised |-> TRUE, value |-> "none",
          exc |-> MakeError("APIError", response.status_code, "API error: <status>")]
    ELSE IF response.body = "not_json"
    THEN [raised |-> TRUE, value |-> "none",
          exc |-> MakeError("NetworkError", NoStatus, "Failed to parse JSON response")]
    ELSE [raised |-> FALSE, value |-> response.body, exc |-> NoExc]

\* EODHDClient._handle_response: the decoded body, or the error raised
_handle_response(response) ==
    IF response.status_code = 401
    THEN [raised |-> TRUE, value |-> "none",
          exc |-> MakeError("AuthenticationError", response.status_code, "Invalid API key")]
    ELSE IF response.status_code = 429
    THEN [raised |-> TRUE, value |-> "none",
          exc |-> MakeError("RateLimitError", response.status_code, "API rate limit exceeded")]
    ELSE IF response.status_code = 404
    THEN [raised |-> TRUE, value |-> "none",
          exc |-> MakeError("DataNotFoundError", response.status_code, "Data not found")]
    ELSE IF response.status_code >= 400
    THEN [raised |-> TRUE, value |-> "none",
          exc |-> MakeError("APIError", response.status_code, "API error: <status>")]
    ELSE IF response.body = "not_json"
    THEN [raised |-> TRUE, value |-> "none",
          exc |-> MakeError("DataProcessingError", NoStatus, "Failed to parse JSON response")]
    ELSE [raised |-> FALSE, value |-> response.body, exc |-> NoExc]

\* RetryOn429 with the bound off by one: the last attempt retries too
RetryOn429_OffByOne(status_code, attempt_, max_retries_) ==
    status_code = 429 /\ attempt_ < max_retries_

\* RetryOn429 widened to the server errors
RetryOn429_AlsoServerErrors(status_code, attempt_, max_retries_) ==
    status_code >= 429 /\ attempt_ < max_retries_ - 1

\* the guard of the rate-limit retry branch
RetryOn429(status_code, attempt_, max_retries_) ==
    status_code = 429 /\ attempt_ < max_retries_ - 1

\* IsFinalAttempt compared with max_retries instead of max_retries - 1
IsFinalAttempt_OffByOne(attempt_, max_retries_) == attempt_ = max_retries_

\* the guard that ends the retries of a transport failure
IsFinalAttempt(attempt_, max_retries_) == attempt_ = max_retries_ - 1

\* BackoffDelay growing linearly instead of doubling
BackoffDelay_Linear(rate_limit_delay_, attempt_) == rate_limit_delay_ * (attempt_ + 1)

\* the argument of asyncio.sleep after failed attempt attempt_
BackoffDelay(rate_limit_delay_, attempt_) == rate_limit_delay_ * (2 ^ attempt_)

(***************************************************************************)
(* Tool Surface: validation, normalisation and the handler chain.           *)
(***************************************************************************)
Tools ==
    {"get_stock_price", "get_earnings_calendar", "get_fundamentals",
     "get_index_components", "get_growth_rates"}

\* the tools whose string input is required
RequiresInput(t) == t # "get_earnings_calendar"

\* IsBlank without the strip: only the empty string is refused
IsBlank_NoStrip(s) == s = <<>>

\* not s or not s.strip()
IsBlank(s) == s = <<>> \/ strip(s) = <<>>

\* the value a tool hands to the API Client for its string input
Normalize(t, s) ==
    IF t = "get_earnings_calendar" THEN s
    ELSE IF t = "get_index_components"
    THEN LET index_code == upper(strip(s))
         IN IF ~endswith(index_code, SuffixUpper)
            THEN index_code \o SuffixUpper
            ELSE index_code
    ELSE upper(strip(s))

\* the string a tool returns when its required input is blank
RequiredMessage(t) ==
    IF t = "get_index_components" THEN "Index code is required" ELSE "Symbol is required"

\* a returned string: kind "data" or "error"; an error string reads
\* "<category> Error: <message>", or "Error: <message>" when category is ""
MakeResult(kind, category, message) ==
    [type |-> "str", kind |-> kind, category |-> category, message |-> message]

NoResult == [type |-> "none", kind |-> "none", category |-> "", message |-> ""]

\* ToolHandler without its last clause, except Exception
ToolHandler_NoCatchAll(e) ==
    IF IsInstance(e.cls, "APIError")
    THEN [escaped |-> FALSE, result |-> MakeResult("error", "API", e.message)]
    ELSE IF IsInstance(e.cls, "DataProcessingError")
    THEN [escaped |-> FALSE, result |-> MakeResult("error", "Data Processing", e.message)]
    ELSE [escaped |-> TRUE, result |-> NoResult]

\* the except clauses of a tool, tried in order; escaped = raised to the host
ToolHandler(e) ==
    IF IsInstance(e.cls, "APIError")
    THEN [escaped |-> FALSE, result |-> MakeResult("error", "API", e.message)]
    ELSE IF IsInstance(e.cls, "DataProcessingError")
    THEN [escaped |-> FALSE, result |-> MakeResult("error", "Data Processing", e.message)]
    ELSE IF IsInstance(e.cls, "Exception")
    THEN [escaped |-> FALSE, result |-> MakeResult("error", "Unexpected", e.message)]
    ELSE [escaped |-> TRUE, result |-> NoResult]

\* what a tool does with the value its API Client call returned: the string it
\* returns, or the DataProcessingError of the Data Processor
ToolProcess(t, body) ==
    IF body = "empty"
    THEN [raised |-> FALSE, exc |-> NoExc,
          result |-> MakeResult("data", "", "No data found")]
    ELSE IF body = "malformed"
    THEN [raised |-> TRUE, result |-> NoResult,
          exc |-> MakeError("DataProcessingError", NoStatus, "Failed to process data")]
    ELSE IF t = "get_growth_rates" /\ body = "sparse"
    THEN [raised |-> FALSE, exc |-> NoExc,
          result |-> MakeResult("data", "", "No growth rate data available")]
    ELSE [raised |-> FALSE, exc |-> NoExc,
          result |-> MakeResult("data", "", "formatted data")]

(***************************************************************************)
(* State of one tool invocation.                                            *)
(***************************************************************************)
VARIABLES
    tool,             \* the tool invoked
    input,            \* its string input (symbol, index_code or symbols)
    max_retries,      \* config.max_retries
    rate_limit_delay, \* config.rate_limit_delay, in time units
    pc,               \* where the invocation is
    arg,              \* the string handed to the API Client
    clientState,      \* "none", "open" or "closed": the httpx.AsyncClient
    attempt,          \* the loop variable of _make_request
    requests,         \* number of client.get calls issued
    sleeps,           \* the delays slept so far, in order
    responses,        \* what upstream answered to each request, in order
    payload,          \* the value _make_request returned
    exc,              \* the exception in flight, or NoExc
    result,           \* the string returned to the host
    call,             \* the arguments of a Data Processor function called alone
    ret,              \* what that call returned, or Pending
    invocations,      \* the tool invocations in progress together, by name
    api_key           \* config.get('api_key'): the configured credential

vars ==
    <<tool, input, max_retries, rate_limit_delay, pc, arg, clientState, attempt,
      requests, sleeps, responses, payload, exc, result, call, ret, invocations, api_key>>

\* no invocations are in progress together
NoInvocations == <<>>

\* credentials a Config accepts
ApiKeys == {"test_key", "demo"}

\* no Data Processor function is called on its own
NoCall == [fn |-> "none"]

\* the call has not returned yet
Pending == [done |-> FALSE]

Init ==
    /\ tool \in Tools
    /\ input \in InputStrings
    /\ max_retries \in 0..MaxRetriesBound
    /\ rate_limit_delay \in RateLimitDelays
    /\ pc = "validate"
    /\ arg = <<>>
    /\ clientState = "none"
    /\ attempt = 0
    /\ requests = 0
    /\ sleeps = <<>>
    /\ responses = <<>>
    /\ payload = "none"
    /\ exc = NoExc
    /\ result = NoResult
    /\ call = NoCall
    /\ ret = Pending
    /\ invocations = NoInvocations
    /\ api_key = "test_key"

\* server.py: the validation at the head of each tool
Validate ==
    /\ pc = "validate"
    /\ IF RequiresInput(tool) /\ IsBlank(input)
       THEN /\ result' = MakeResult("error", "", RequiredMessage(tool))
            /\ pc' = "returned"
            /\ arg' = arg
       ELSE /\ arg' = Normalize(tool, input)
            /\ pc' = "open"
            /\ result' = result
    /\ UNCHANGED <<api_key, invocations, call, ret, tool, input, max_retries, rate_limit_delay, clientState, attempt,
                   requests, sleeps, responses, payload, exc>>

\* async with EODHDClient() as client, and the entry of _make_request
OpenClient ==
    /\ pc = "open"
    /\ clientState' = "open"
    /\ attempt' = 0
    /\ pc' = "request"
    /\ UNCHANGED <<api_key, invocations, call, ret, tool, input, max_retries, rate_limit_delay, arg, requests, sleeps,
                   responses, payload, exc, result>>

\* one iteration of _make_request whose client.get returns a response
ReceiveResponse ==
    /\ pc = "request"
    /\ attempt < max_retries
    /\ \E u \in Upstream :
        /\ requests' = requests + 1
        /\ responses' = Append(responses, u)
        /\ IF RetryOn429(u.status_code, attempt, max_retries)
           THEN /\ sleeps' = Append(sleeps, BackoffDelay(rate_limit_delay, attempt))
                /\ pc' = "sleep"
                /\ UNCHANGED <<payload, exc>>
           ELSE LET r == _handle_response(u)
                IN /\ sleeps' = sleeps
                   /\ IF r.raised
                      THEN exc' = r.exc /\ payload' = payload /\ pc' = "close"
                      ELSE exc' = exc /\ payload' = r.value /\ pc' = "process"
    /\ UNCHANGED <<api_key, invocations, call, ret, tool, input, max_retries, rate_limit_delay, arg, clientState,
                   attempt, result>>

\* one iteration of _make_request whose client.get raises httpx.RequestError
RequestError ==
    /\ pc = "request"
    /\ attempt < max_retries
    /\ requests' = requests + 1
    /\ responses' = Append(responses, Failure("RequestError"))
    /\ IF IsFinalAttempt(attempt, max_retries)
       THEN /\ exc' = MakeError("NetworkError", NoStatus, "Network error after attempts")
            /\ pc' = "close"
            /\ sleeps' = sleeps
       ELSE /\ sleeps' = Append(sleeps, BackoffDelay(rate_limit_delay, attempt))
            /\ pc' = "sleep"
            /\ exc' = exc
    /\ UNCHANGED <<api_key, invocations, call, ret, tool, input, max_retries, rate_limit_delay, arg, clientState,
                   attempt, payload, result>>

\* one iteration of _make_request whose client.get raises an exception that is
\* no httpx.RequestError (httpx.InvalidURL for a bad base URL)
RequestRaises ==
    /\ pc = "request"
    /\ attempt < max_retries
    /\ requests' = requests + 1
    /\ responses' = Append(responses, Failure("InvalidURL"))
    /\ exc' = MakeError("InvalidURL", NoStatus, "invalid URL")
    /\ pc' = "close"
    /\ UNCHANGED <<api_key, invocations, call, ret, tool, input, max_retries, rate_limit_delay, arg, clientState,
                   attempt, sleeps, payload, result>>

\* the loop resumes without advancing its counter
WakeUp_SameAttempt ==
    /\ pc = "sleep"
    /\ pc' = "request"
    /\ UNCHANGED <<api_key, invocations, call, ret, tool, input, max_retries, rate_limit_delay, arg, clientState,
                   attempt, requests, sleeps, responses, payload, exc, result>>

\* asyncio.sleep returns and the loop goes to its next iteration
WakeUp ==
    /\ pc = "sleep"
    /\ attempt' = attempt + 1
    /\ pc' = "request"
    /\ UNCHANGED <<api_key, invocations, call, ret, tool, input, max_retries, rate_limit_delay, arg, clientState,
                   requests, sleeps, responses, payload, exc, result>>

\* the loop of _make_request ends without a return or a raise
Exhausted ==
    /\ pc = "request"
    /\ ~(attempt < max_retries)
    /\ exc' = MakeError("NetworkError", NoStatus, "Failed to make request after attempts")
    /\ pc' = "close"
    /\ UNCHANGED <<api_key, invocations, call, ret, tool, input, max_retries, rate_limit_delay, arg, clientState,
                   attempt, requests, sleeps, responses, payload, result>>

\* the tool's body after the API Client call: Data Processor and formatting
Process ==
    /\ pc = "process"
    /\ LET r == ToolProcess(tool, payload)
       IN /\ exc' = r.exc
          /\ result' = r.result
    /\ pc' = "close"
    /\ UNCHANGED <<api_key, invocations, call, ret, tool, input, max_retries, rate_limit_delay, arg, clientState,
                   attempt, requests, sleeps, responses, payload>>

\* the client is closed only when the block is left without an exception
CloseClient_OnlyOnSuccess ==
    /\ pc = "close"
    /\ clientState' = IF exc # NoExc THEN clientState ELSE "closed"
    /\ pc' = IF exc # NoExc THEN "handle" ELSE "returned"
    /\ UNCHANGED <<api_key, invocations, call, ret, tool, input, max_retries, rate_limit_delay, arg, attempt, requests,
                   sleeps, responses, payload, exc, result>>

\* EODHDClient.__aexit__: leaving the async with block, by return or by raise
CloseClient ==
    /\ pc = "close"
    /\ clientState' = "closed"
    /\ pc' = IF exc # NoExc THEN "handle" ELSE "returned"
    /\ UNCHANGED <<api_key, invocations, call, ret, tool, input, max_retries, rate_limit_delay, arg, attempt, requests,
                   sleeps, responses, payload, exc, result>>

\* the except clauses of the tool
HandleException ==
    /\ pc = "handle"
    /\ LET h == ToolHandler(exc)
       IN /\ result' = h.result
          /\ pc' = IF h.escaped THEN "raised" ELSE "returned"
    /\ UNCHANGED <<api_key, invocations, call, ret, tool, input, max_retries, rate_limit_delay, arg, clientState,
                   attempt, requests, sleeps, responses, payload, exc>>

Next ==
    \/ Validate
    \/ OpenClient
    \/ ReceiveResponse
    \/ RequestError
    \/ RequestRaises
    \/ WakeUp
    \/ Exhausted
    \/ Process
    \/ CloseClient
    \/ HandleException

Spec == Init /\ [][Next]_vars

(***************************************************************************)
(* Data Processor.  Its functions are pure; each is called on its own, with *)
(* the tool variables idle.                                                 *)
(***************************************************************************)
toolVars ==
    <<tool, input, max_retries, rate_limit_delay, pc, arg, clientState, attempt,
      requests, sleeps, responses, payload, exc, result, invocations, api_key>>

\* no tool is invoked
ToolIdle ==
    /\ tool = "none"
    /\ input = <<>>
    /\ max_retries = 0
    /\ rate_limit_delay = 0
    /\ pc = "idle"
    /\ arg = <<>>
    /\ clientState = "none"
    /\ attempt = 0
    /\ requests = 0
    /\ sleeps = <<>>
    /\ responses = <<>>
    /\ payload = "none"
    /\ exc = NoExc
    /\ result = NoResult
    /\ invocations = NoInvocations
    /\ api_key = "test_key"

\* a missing value of a table: None, NaN or NaT
Null == -1

\* the permutations of 1..n
Perms(n) == {f \in [1..n -> 1..n] : \A i, j \in 1..n : i # j => f[i] # f[j]}

\* date a sorts strictly before date b (ascending, NaT last)
Before(a, b) == a # Null /\ (b = Null \/ a < b)

\* DataFrame.sort_values('date'): every order it may return.  The rows come
\* out ascending by date with NaT last; the default sort (quicksort) is not
\* stable, so rows of equal date come out in any order.
sort_values(rows) ==
    LET n == Len(rows)
    IN {[i \in 1..n |-> rows[f[i]]] :
          f \in {g \in Perms(n) :
                   \A i, j \in 1..n : i < j => ~Before(rows[g[j]].date, rows[g[i]].date)}}

RECURSIVE SumSeq(_)
SumSeq(s) == IF s = <<>> THEN 0 ELSE Head(s) + SumSeq(Tail(s))

(***************************************************************************)
(* calculate_average_volume                                                 *)
(***************************************************************************)
\* a table with the columns date and volume, any of them perhaps missing
VolumeDates == {Null, 1, 2, 3}
VolumeValues == {Null, 1, 2}

VolumeRows(columns) ==
    {[date |-> d, volume |-> v] :
        d \in (IF "date" \in columns THEN VolumeDates ELSE {Null}),
        v \in (IF "volume" \in columns THEN VolumeValues ELSE {Null})}

\* the periods argument: None, or a list of periods
PeriodArgs ==
    {[none |-> TRUE, values |-> {}]}
    \cup {[none |-> FALSE, values |-> {q}] : q \in 1..MaxPeriod}
    \cup {[none |-> FALSE, values |-> 1..MaxPeriod]}

\* periods = [20, 60] when none is given
DefaultPeriods == {20, 60}

\* the values a period maps to: None, NaN, or the float num/den
NoneValue == [kind |-> "None", num |-> 0, den |-> 1]
NaNValue == [kind |-> "NaN", num |-> 0, den |-> 1]
MeanValue(num, den) == [kind |-> "mean", num |-> num, den |-> den]

\* DataFrame.empty: no rows or no columns
empty(df) == Len(df.rows) = 0 \/ df.columns = {}

\* tail with the first p rows taken instead of the last p
tail_FromHead(rows, p) == SubSeq(rows, 1, p)

\* Series.tail(p), for 1 <= p <= len
tail(rows, p) == SubSeq(rows, Len(rows) - p + 1, Len(rows))

\* Series.mean(): the mean of the values that are not NaN, NaN if there is none
mean(values) ==
    LET present == SelectSeq(values, LAMBDA v : v # Null)
    IN IF present = <<>> THEN NaNValue
       ELSE MeanValue(SumSeq(present), Len(present))

\* DataProcessor.calculate_average_volume: every mapping it may return
calculate_average_volume(df, periods_arg) ==
    LET periods == IF periods_arg.none THEN DefaultPeriods ELSE periods_arg.values
    IN IF empty(df) \/ "volume" \notin df.columns
       THEN {[q \in periods |-> NoneValue]}
       ELSE LET orders == IF "date" \in df.columns THEN sort_values(df.rows)
                          ELSE {df.rows}
            IN {[q \in periods |->
                    IF Len(sorted) >= q
                    THEN mean([k \in 1..q |-> tail(sorted, q)[k].volume])
                    ELSE NoneValue] : sorted \in orders}

\* any table of at most MaxRows rows, with any of the two columns
InitVolume ==
    /\ ToolIdle
    /\ \E c \in SUBSET {"date", "volume"}, n \in 0..MaxRows :
          \E r \in [1..n -> VolumeRows(c)], a \in PeriodArgs :
              call = [fn |-> "calculate_average_volume",
                      df |-> [columns |-> c, rows |-> SubSeq(r, 1, n)],
                      periods |-> a]
    /\ ret = Pending

CalculateAverageVolume ==
    /\ call.fn = "calculate_average_volume"
    /\ ret = Pending
    /\ \E r \in calculate_average_volume(call.df, call.periods) :
          ret' = [done |-> TRUE, value |-> r]
    /\ UNCHANGED <<toolVars, call>>

NextVolume == CalculateAverageVolume

SpecVolume == InitVolume /\ [][NextVolume]_vars

(***************************************************************************)
(* _determine_trend                                                         *)
(***************************************************************************)
TrendValues == {Null, 0, 1, 2}

\* one entry of Series.diff(): NaN, or a difference
NaNDiff == [na |-> TRUE, v |-> 0]
Diff(v) == [na |-> FALSE, v |-> v]

\* Series.isna().all()
isna_all(series) == \A k \in 1..Len(series) : series[k] = Null

\* Series.diff(): NaN at the first position and wherever either value is NaN
diff(series) ==
    [k \in 1..Len(series) |->
        IF k = 1 \/ series[k] = Null \/ series[k - 1] = Null
        THEN NaNDiff
        ELSE Diff(series[k] - series[k - 1])]

\* Series.dropna()
dropna(diffs) == SelectSeq(diffs, LAMBDA d : ~d.na)

\* AllPositive with >= for >: a plateau counts as rising
AllPositive_NonStrict(diffs) == \A k \in 1..Len(diffs) : diffs[k].v >= 0

\* (diffs > 0).all()
AllPositive(diffs) == \A k \in 1..Len(diffs) : diffs[k].v > 0

\* (diffs < 0).all()
AllNegative(diffs) == \A k \in 1..Len(diffs) : diffs[k].v < 0

\* DataProcessor._determine_trend
_determine_trend(series) ==
    IF isna_all(series) THEN "N/A"
    ELSE LET diffs == dropna(diff(series))
         IN IF diffs = <<>> THEN "N/A"
            ELSE IF AllPositive(diffs) THEN "increasing"
            ELSE IF AllNegative(diffs) THEN "decreasing"
            ELSE "mixed"

InitTrend ==
    /\ ToolIdle
    /\ \E n \in 0..MaxSeries :
          \E x \in [1..n -> TrendValues] :
              call = [fn |-> "_determine_trend", series |-> SubSeq(x, 1, n)]
    /\ ret = Pending

DetermineTrend ==
    /\ call.fn = "_determine_trend"
    /\ ret = Pending
    /\ ret' = [done |-> TRUE, value |-> _determine_trend(call.series)]
    /\ UNCHANGED <<toolVars, call>>

NextTrend == DetermineTrend

SpecTrend == InitTrend /\ [][NextTrend]_vars

(***************************************************************************)
(* process_eod_data                                                         *)
(***************************************************************************)
\* the values of a raw record: a key the record lacks, a number, a string
\* that reads as the number or date v, a string that reads as neither
Absent == [t |-> "absent", v |-> 0]
Num(v) == [t |-> "num", v |-> v]
Str(v) == [t |-> "str", v |-> v]
Bad == [t |-> "bad", v |-> 0]

RequiredColumns == {"date", "open", "high", "low", "close", "volume"}
NumericColumns == {"open", "high", "low", "close", "volume"}

\* the raw values explored
RawDates == {Absent, Str(1), Str(2), Bad}
RawPrices == {Absent, Num(1)}
RawVolumes == {Absent, Str(9), Bad}

\* a raw record
RawRecord(d, x, v) ==
    [date |-> d, open |-> x, high |-> x, low |-> x, close |-> x, volume |-> v]

\* pd.DataFrame(raw_data): the columns are the keys of the records, the
\* index is 0..N-1, a key a record lacks reads as missing
DataFrame(raw_data) ==
    [columns |-> {c \in RequiredColumns :
                     \E k \in 1..Len(raw_data) : raw_data[k][c] # Absent},
     rows |-> [k \in 1..Len(raw_data) |->
                 [index |-> k - 1, date |-> raw_data[k].date,
                  open |-> raw_data[k].open, high |-> raw_data[k].high,
                  low |-> raw_data[k].low, close |-> raw_data[k].close,
                  volume |-> raw_data[k].volume]]]

\* df[col] = None for each required column the table lacks
AddMissingColumns(df) ==
    LET missing_columns == {c \in RequiredColumns : c \notin df.columns}
    IN [columns |-> df.columns \cup missing_columns, rows |-> df.rows]

\* pd.to_datetime fails on the column: some value is no date
DateFails(df) == \E k \in 1..Len(df.rows) : df.rows[k].date = Bad

\* pd.to_datetime on one value that parses
to_datetime(cell) == IF cell.t = "str" THEN cell.v ELSE Null

\* pd.to_numeric(errors='coerce') on one value
to_numeric(cell) == IF cell.t \in {"num", "str"} THEN cell.v ELSE Null

\* reset_index left out: the rows keep the index they had
reset_index_Skipped(rows) == rows

\* DataFrame.reset_index(drop=True)
reset_index(rows) == [k \in 1..Len(rows) |-> [rows[k] EXCEPT !.index = k - 1]]

ConvertDates(rows) == [k \in 1..Len(rows) |-> [rows[k] EXCEPT !.date = to_datetime(@)]]

ConvertNumeric(df, rows) ==
    [k \in 1..Len(rows) |->
        [c \in DOMAIN rows[k] |->
            IF c \in NumericColumns /\ c \in df.columns
            THEN to_numeric(rows[k][c])
            ELSE rows[k][c]]]

\* what process_eod_data returns or raises
Returned(df) == [ok |-> TRUE, columns |-> df.columns, rows |-> df.rows, exc |-> "None"]
Raised(cls) == [ok |-> FALSE, columns |-> {}, rows |-> <<>>, exc |-> cls]

\* DataProcessor.process_eod_data: every outcome it may have
process_eod_data(raw_data) ==
    IF raw_data = <<>> THEN {Returned([columns |-> {}, rows |-> <<>>])}
    ELSE LET df == AddMissingColumns(DataFrame(raw_data))
         IN IF "date" \in df.columns /\ DateFails(df)
            THEN {Raised("DataProcessingError")}
            ELSE LET orders == IF "date" \in df.columns
                               THEN sort_values(ConvertDates(df.rows))
                               ELSE {df.rows}
                 IN {Returned([columns |-> df.columns,
                               rows |-> reset_index(ConvertNumeric(df, sorted))]) :
                        sorted \in orders}

\* any list of at most MaxRecords records; the four prices are given alike
\* throughout a list (all present or all absent), date and volume per record
InitEod ==
    /\ ToolIdle
    /\ \E n \in 0..MaxRecords, x \in RawPrices :
          \E r \in [1..n -> RawDates \X RawVolumes] :
              call = [fn |-> "process_eod_data",
                      raw_data |-> [k \in 1..n |-> RawRecord(r[k][1], x, r[k][2])]]
    /\ ret = Pending

ProcessEodData ==
    /\ call.fn = "process_eod_data"
    /\ ret = Pending
    /\ \E r \in process_eod_data(call.raw_data) : ret' = [done |-> TRUE, value |-> r]
    /\ UNCHANGED <<toolVars, call>>

NextEod == ProcessEodData

SpecEod == InitEod /\ [][NextEod]_vars

(***************************************************************************)
(* get_index_components (api_client.py) and process_index_components        *)
(***************************************************************************)
\* the keys get_index_components looks under, in the order of its loop
IndexKeys == <<"Components", "components", "Holdings", "holdings">>

\* a symbol-like field a record lacks (NaN in a table)
Missing == "<missing>"

\* one component record: its symbol-like fields are strings, its weight
\* fields raw values.  The shares and market-value fields, which are coerced
\* like the weights and never sorted on, are not drawn.
Row(symbol, Symbol, Code, weight, Weight) ==
    [symbol |-> symbol, Symbol |-> Symbol, Code |-> Code,
     weight |-> weight, Weight |-> Weight]

SymbolColumns == {"symbol", "Symbol", "Code"}
WeightColumns == <<"weight", "Weight">>
ComponentColumns == {"symbol", "Symbol", "Code", "weight", "Weight"}

\* the value under one key of the response: the key is not there, a mapping
\* keyed by symbol (its entries in order), or a sequence of records
NoValue == [t |-> "absent", entries |-> <<>>, items |-> <<>>]
DictValue(entries) == [t |-> "dict", entries |-> entries, items |-> <<>>]
ListValue(items) == [t |-> "list", entries |-> <<>>, items |-> items]

\* the decoded response: a mapping (its own fields and the four keys) or a
\* sequence
DictResponse(own, keys) == [t |-> "dict", own |-> own, keys |-> keys, items |-> <<>>]
ListResponse(items) ==
    [t |-> "list", own |-> Row(Missing, Missing, Missing, Absent, Absent),
     keys |-> [k \in {IndexKeys[i] : i \in 1..4} |-> NoValue], items |-> items]
NoResponse ==
    [t |-> "none", own |-> Row(Missing, Missing, Missing, Absent, Absent),
     keys |-> [k \in {IndexKeys[i] : i \in 1..4} |-> NoValue], items |-> <<>>]

\* the loop takes the last key present instead of the first
FoundKey_Last(present) == CHOOSE i \in present : \A j \in present : j <= i

\* for key in [...]: if key in response: the first key present
FoundKey(present) == CHOOSE i \in present : \A j \in present : i <= j

\* {'symbol': k, **v}: the entry's own symbol field, when it has one, replaces k
Flatten(e) == [e.fields EXCEPT !.symbol = IF @ = Missing THEN e.key ELSE @]

\* EODHDClient.get_index_components, after _make_request returned response
get_index_components(response) ==
    IF response.t = "dict"
    THEN LET present == {i \in 1..4 : response.keys[IndexKeys[i]] # NoValue}
         IN IF present # {}
            THEN LET components == response.keys[IndexKeys[FoundKey(present)]]
                 IN IF components.t = "dict"
                    THEN [k \in 1..Len(components.entries) |->
                             Flatten(components.entries[k])]
                    ELSE components.items
            ELSE <<response.own>>
    ELSE response.items

\* pd.DataFrame(raw_data) of component records
ComponentsFrame(raw_data) ==
    [columns |-> {c \in SymbolColumns :
                     \E k \in 1..Len(raw_data) : raw_data[k][c] # Missing}
                 \cup {c \in {"weight", "Weight"} :
                     \E k \in 1..Len(raw_data) : raw_data[k][c] # Absent},
     rows |-> [k \in 1..Len(raw_data) |->
                 [index |-> k - 1, symbol |-> raw_data[k].symbol,
                  Symbol |-> raw_data[k].Symbol, Code |-> raw_data[k].Code,
                  weight |-> raw_data[k].weight, Weight |-> raw_data[k].Weight]]]

\* the symbol column is taken from Symbol, else from Code, when it is not there
EnsureSymbol(df) ==
    IF "symbol" \notin df.columns /\ "Symbol" \in df.columns
    THEN [columns |-> df.columns \cup {"symbol"},
          rows |-> [k \in 1..Len(df.rows) |-> [df.rows[k] EXCEPT !.symbol = df.rows[k].Symbol]]]
    ELSE IF "symbol" \notin df.columns /\ "Code" \in df.columns
    THEN [columns |-> df.columns \cup {"symbol"},
          rows |-> [k \in 1..Len(df.rows) |-> [df.rows[k] EXCEPT !.symbol = df.rows[k].Code]]]
    ELSE df

\* pd.to_numeric(errors='coerce') on the weight columns the table has
CoerceWeights(df) ==
    [columns |-> df.columns,
     rows |-> [k \in 1..Len(df.rows) |->
                 [c \in DOMAIN df.rows[k] |->
                     IF c \in {"weight", "Weight"}
                     THEN (IF c \in df.columns THEN to_numeric(df.rows[k][c]) ELSE Null)
                     ELSE df.rows[k][c]]]]

\* weight a sorts strictly before weight b (descending, NaN last)
Above(a, b) == a # Null /\ (b = Null \/ a > b)

\* the sort is done ascending
sort_values_descending_Ascending(rows, col) ==
    LET n == Len(rows)
    IN {[i \in 1..n |-> rows[f[i]]] :
          f \in {g \in Perms(n) :
                   \A i, j \in 1..n : i < j => ~Before(rows[g[j]][col], rows[g[i]][col])}}

\* DataFrame.sort_values(col, ascending=False): every order it may return.
\* The rows come out descending by col with NaN last; the default sort
\* (quicksort) is not stable, so rows of equal value come out in any order.
sort_values_descending(rows, col) ==
    LET n == Len(rows)
    IN {[i \in 1..n |-> rows[f[i]]] :
          f \in {g \in Perms(n) :
                   \A i, j \in 1..n : i < j => ~Above(rows[g[j]][col], rows[g[i]][col])}}

\* for col in ['weight', 'Weight']: if col in df.columns: sort, break
SortByWeight(df) ==
    LET found == {i \in 1..2 : WeightColumns[i] \in df.columns}
    IN IF found = {} THEN {df.rows}
       ELSE sort_values_descending(df.rows,
                WeightColumns[CHOOSE i \in found : \A j \in found : i <= j])

\* DataProcessor.process_index_components: every table it may return
process_index_components(raw_data) ==
    IF raw_data = <<>> THEN {[columns |-> {}, rows |-> <<>>]}
    ELSE LET df == CoerceWeights(EnsureSymbol(ComponentsFrame(raw_data)))
         IN {[columns |-> df.columns, rows |-> reset_index(sorted)] :
                sorted \in SortByWeight(df)}

\* the entries and records explored
EntryKeys == {"AAPL", "MSFT"}
EntrySymbols == {Missing, "X"}
EntryWeights == {Absent, Num(3), Num(5)}

\* a record found under a key that is not the one explored in full
OtherRecord == Row("OTHER", Missing, Missing, Absent, Absent)

\* the fields of the response mapping itself
OwnFields == Row(Missing, Missing, "GSPC", Absent, Absent)

\* a response mapping: one key holds nothing, a mapping of at most MaxEntries
\* entries or a sequence of at most MaxEntries records; each other key holds
\* nothing or a one-record sequence
IndexResponses(main, shape, fields, others) ==
    LET n == Len(fields)
        rows == [k \in 1..n |-> Row(fields[k][2], Missing, Missing, fields[k][3], Absent)]
        value == IF shape = "absent" THEN NoValue
                 ELSE IF shape = "dict"
                 THEN DictValue([k \in 1..n |-> [key |-> fields[k][1], fields |-> rows[k]]])
                 ELSE ListValue(rows)
    IN DictResponse(OwnFields,
          [k \in {IndexKeys[i] : i \in 1..4} |->
              IF k = IndexKeys[main] THEN value
              ELSE IF k \in others THEN ListValue(<<OtherRecord>>) ELSE NoValue])

InitIndex ==
    /\ ToolIdle
    /\ \/ \E main \in 1..4, shape \in {"absent", "dict", "list"}, n \in 0..MaxEntries :
            \E fields \in [1..n -> EntryKeys \X EntrySymbols \X EntryWeights],
               others \in SUBSET {IndexKeys[i] : i \in 1..4} :
                /\ shape = "absent" => n = 0
                /\ shape = "dict" =>
                      \A i, j \in 1..n : i # j => fields[i][1] # fields[j][1]
                /\ call = [fn |-> "get_index_components",
                           response |-> IndexResponses(main, shape, SubSeq(fields, 1, n), others),
                           raw_data |-> <<>>]
       \/ \E n \in 0..1 :
            call = [fn |-> "get_index_components",
                    response |-> ListResponse(SubSeq(<<OtherRecord>>, 1, n)),
                    raw_data |-> <<>>]
    /\ ret = Pending

\* client.get_index_components returns; the tool returns at once when the
\* value is empty and hands it to the Data Processor otherwise
GetIndexComponents ==
    /\ call.fn = "get_index_components"
    /\ LET raw_data == get_index_components(call.response)
       IN call' = [fn |-> IF raw_data = <<>> THEN "no_index_components"
                          ELSE "process_index_components",
                   response |-> call.response, raw_data |-> raw_data]
    /\ UNCHANGED <<toolVars, ret>>

ProcessIndexComponents ==
    /\ call.fn = "process_index_components"
    /\ ret = Pending
    /\ \E r \in process_index_components(call.raw_data) : ret' = [done |-> TRUE, value |-> r]
    /\ UNCHANGED <<toolVars, call>>

NextIndex == GetIndexComponents \/ ProcessIndexComponents

SpecIndex == InitIndex /\ [][NextIndex]_vars

\* the names the components of a list go by in their three symbol-like
\* fields: the records of a list are different components
ComponentNames ==
    <<[symbol |-> "AAPL", Symbol |-> "S-AAPL", Code |-> "C-AAPL"],
      [symbol |-> "MSFT", Symbol |-> "S-MSFT", Code |-> "C-MSFT"],
      [symbol |-> "NVDA", Symbol |-> "S-NVDA", Code |-> "C-NVDA"],
      [symbol |-> "AMZN", Symbol |-> "S-AMZN", Code |-> "C-AMZN"],
      [symbol |-> "META", Symbol |-> "S-META", Code |-> "C-META"]>>
NameOf(k) == ComponentNames[((k - 1) % Len(ComponentNames)) + 1]
RawWeights == {Bad, Num(3), Str(5)}
RawWeights2 == {Num(1), Num(2)}

\* record k of a list whose records have the keys in columns
ComponentRecord(columns, k, w, w2) ==
    Row(IF "symbol" \in columns THEN NameOf(k).symbol ELSE Missing,
        IF "Symbol" \in columns THEN NameOf(k).Symbol ELSE Missing,
        IF "Code" \in columns THEN NameOf(k).Code ELSE Missing,
        IF "weight" \in columns THEN w ELSE Absent,
        IF "Weight" \in columns THEN w2 ELSE Absent)

\* any list of at most MaxComponents records that have the same keys
InitComponents ==
    /\ ToolIdle
    /\ \E columns \in SUBSET ComponentColumns, n \in 0..MaxComponents :
          \E w \in [1..n -> RawWeights \X RawWeights2] :
              call = [fn |-> "process_index_components", response |-> NoResponse,
                      raw_data |-> [k \in 1..n |->
                                      ComponentRecord(columns, k, w[k][1], w[k][2])]]
    /\ ret = Pending

NextComponents == ProcessIndexComponents

SpecComponents == InitComponents /\ [][NextComponents]_vars

(***************************************************************************)
(* process_fundamentals_data and format_for_display(..., 'fundamentals')    *)
(***************************************************************************)
\* Python's None as a value of a mapping
PyNone == "<None>"

\* a mapping is a function from its keys to its values; {} is the empty one
EmptyDict == <<>>

\* dict.get(key): None when the key is not there
get(mapping, key) == IF key \in DOMAIN mapping THEN mapping[key] ELSE PyNone

\* dict.get(key, default)
get_default(mapping, key, default) == IF key \in DOMAIN mapping THEN mapping[key] ELSE default

\* the fixed schema of the general section: result key |-> upstream key
GeneralSchema ==
    [code |-> "Code", name |-> "Name", type |-> "Type", country |-> "CountryName",
     currency |-> "CurrencyCode", exchange |-> "Exchange", sector |-> "Sector",
     industry |-> "Industry", description |-> "Description", website |-> "WebURL",
     market_cap |-> "MarketCapitalization", shares_outstanding |-> "SharesOutstanding",
     employees |-> "FullTimeEmployees"]

\* the fixed schema of the highlights section
HighlightsSchema ==
    [market_cap |-> "MarketCapitalization", ebitda |-> "EBITDA", pe_ratio |-> "PERatio",
     peg_ratio |-> "PEGRatio", wall_street_target_price |-> "WallStreetTargetPrice",
     book_value |-> "BookValue", dividend_share |-> "DividendShare",
     dividend_yield |-> "DividendYield", earnings_share |-> "EarningsShare",
     eps_estimate_current_year |-> "EPSEstimateCurrentYear",
     eps_estimate_next_year |-> "EPSEstimateNextYear",
     eps_estimate_next_quarter |-> "EPSEstimateNextQuarter",
     eps_estimate_current_quarter |-> "EPSEstimateCurrentQuarter",
     most_recent_quarter |-> "MostRecentQuarter", profit_margin |-> "ProfitMargin",
     operating_margin_ttm |-> "OperatingMarginTTM",
     return_on_assets_ttm |-> "ReturnOnAssetsTTM",
     return_on_equity_ttm |-> "ReturnOnEquityTTM", revenue_ttm |-> "RevenueTTM",
     revenue_per_share_ttm |-> "RevenuePerShareTTM",
     quarterly_revenue_growth_yoy |-> "QuarterlyRevenueGrowthYOY",
     gross_profit_ttm |-> "GrossProfitTTM", diluted_eps_ttm |-> "DilutedEpsTTM",
     quarterly_earnings_growth_yoy |-> "QuarterlyEarningsGrowthYOY"]

RawSections == {"General", "Highlights", "Valuation", "Financials", "Technicals"}

\* a raw fundamentals mapping: the sections it has and what each holds
RawFundamentals(keys, general, highlights, valuation, financials, technicals) ==
    [keys |-> keys,
     General |-> IF "General" \in keys THEN general ELSE EmptyDict,
     Highlights |-> IF "Highlights" \in keys THEN highlights ELSE EmptyDict,
     Valuation |-> IF "Valuation" \in keys THEN valuation ELSE EmptyDict,
     Financials |-> IF "Financials" \in keys THEN financials ELSE EmptyDict,
     Technicals |-> IF "Technicals" \in keys THEN technicals ELSE EmptyDict]

\* raw_data.get(section, {})
get_section(raw_data, section) ==
    IF section \in raw_data.keys THEN raw_data[section] ELSE EmptyDict

\* the valuation key is set whether or not the section holds anything
IncludeValuation_Always(raw_data) == TRUE

\* valuation = raw_data.get('Valuation', {}); if valuation:
IncludeValuation(raw_data) == get_section(raw_data, "Valuation") # EmptyDict

\* the snapshot: the keys it has and what each holds
Snapshot(keys, general, highlights, valuation, financials, technicals) ==
    [keys |-> keys,
     general |-> IF "general" \in keys THEN general ELSE EmptyDict,
     highlights |-> IF "highlights" \in keys THEN highlights ELSE EmptyDict,
     valuation |-> IF "valuation" \in keys THEN valuation ELSE EmptyDict,
     financials |-> IF "financials" \in keys THEN financials ELSE EmptyDict,
     technicals |-> IF "technicals" \in keys THEN technicals ELSE EmptyDict]

\* DataProcessor.process_fundamentals_data, on a mapping of mappings
process_fundamentals_data(raw_data) ==
    IF raw_data.keys = {}
    THEN Snapshot({}, EmptyDict, EmptyDict, EmptyDict, EmptyDict, EmptyDict)
    ELSE LET general_info == get_section(raw_data, "General")
             highlights == get_section(raw_data, "Highlights")
             valuation == get_section(raw_data, "Valuation")
         IN Snapshot(
               (IF general_info # EmptyDict THEN {"general"} ELSE {})
                 \cup (IF highlights # EmptyDict THEN {"highlights"} ELSE {})
                 \cup (IF IncludeValuation(raw_data) THEN {"valuation"} ELSE {})
                 \cup (IF "Financials" \in raw_data.keys THEN {"financials"} ELSE {})
                 \cup (IF "Technicals" \in raw_data.keys THEN {"technicals"} ELSE {}),
               [k \in DOMAIN GeneralSchema |-> get(general_info, GeneralSchema[k])],
               [k \in DOMAIN HighlightsSchema |-> get(highlights, HighlightsSchema[k])],
               valuation,
               raw_data["Financials"],
               raw_data["Technicals"])

\* str(value) inside an f-string
str(value) == IF value = PyNone THEN "None" ELSE value

\* one line "<label>: <text>" of the report
Line(label, text) == [label |-> label, text |-> text]

\* format_for_display(data, 'fundamentals') on a mapping: the lines of the
\* report, in order, before they are joined
format_for_display(data) ==
    (IF "general" \in data.keys
     THEN <<Line("=== GENERAL INFORMATION ===", ""),
            Line("Company", str(get_default(data.general, "name", "N/A"))),
            Line("Symbol", str(get_default(data.general, "code", "N/A"))),
            Line("Sector", str(get_default(data.general, "sector", "N/A"))),
            Line("Industry", str(get_default(data.general, "industry", "N/A"))),
            Line("Market Cap", str(get_default(data.general, "market_cap", "N/A"))),
            Line("", "")>>
     ELSE <<>>)
    \o
    (IF "highlights" \in data.keys
     THEN <<Line("=== KEY METRICS ===", ""),
            Line("P/E Ratio", str(get_default(data.highlights, "pe_ratio", "N/A"))),
            Line("EPS (TTM)", str(get_default(data.highlights, "diluted_eps_ttm", "N/A"))),
            Line("Revenue (TTM)", str(get_default(data.highlights, "revenue_ttm", "N/A"))),
            Line("Profit Margin", str(get_default(data.highlights, "profit_margin", "N/A"))),
            Line("Dividend Yield", str(get_default(data.highlights, "dividend_yield", "N/A")))>>
     ELSE <<>>)

\* the upstream fields explored and the value each holds when present
GeneralFields == {"Code", "Name", "Sector", "Type"}
HighlightsFields == {"PERatio", "DilutedEpsTTM", "DividendYield", "EBITDA"}
RawValue(field) ==
    CASE field = "Code" -> "AAPL"
      [] field = "PERatio" -> "25.5"
      [] OTHER -> field

\* a section holding exactly the fields in present
SectionOf(present) == [f \in present |-> RawValue(f)]

\* what a section passed through unchanged may hold
Passthrough == {EmptyDict, [TrailingPE |-> "30.1"]}

InitFundamentals ==
    /\ ToolIdle
    /\ \E keys \in SUBSET RawSections :
          \E g \in SUBSET GeneralFields, h \in SUBSET HighlightsFields,
             v \in Passthrough, f \in Passthrough, t \in Passthrough :
              /\ "General" \notin keys => g = {}
              /\ "Highlights" \notin keys => h = {}
              /\ "Valuation" \notin keys => v = EmptyDict
              /\ "Financials" \notin keys => f = EmptyDict
              /\ "Technicals" \notin keys => t = EmptyDict
              /\ call = [fn |-> "process_fundamentals_data",
                         raw_data |-> RawFundamentals(keys, SectionOf(g), SectionOf(h), v, f, t),
                         data |-> Snapshot({}, EmptyDict, EmptyDict, EmptyDict, EmptyDict, EmptyDict)]
    /\ ret = Pending

ProcessFundamentalsData ==
    /\ call.fn = "process_fundamentals_data"
    /\ ret = Pending
    /\ ret' = [done |-> TRUE, value |-> process_fundamentals_data(call.raw_data)]
    /\ UNCHANGED <<toolVars, call>>

\* the snapshot is rendered
FormatForDisplay ==
    /\ call.fn = "process_fundamentals_data"
    /\ ret # Pending
    /\ call' = [fn |-> "format_for_display", raw_data |-> call.raw_data, data |-> ret.value]
    /\ ret' = [done |-> TRUE, value |-> format_for_display(ret.value)]
    /\ UNCHANGED toolVars

NextFundamentals == ProcessFundamentalsData \/ FormatForDisplay

SpecFundamentals == InitFundamentals /\ [][NextFundamentals]_vars

(***************************************************************************)
(* Config (config.py).  The environment is what os.getenv reads once        *)
(* load_dotenv has run.                                                     *)
(***************************************************************************)
\* a variable the environment does not have
Unset == "<unset>"

\* the environments explored
Environments ==
    [EODHD_API_KEY : {Unset, "", "test_key"},
     EODHD_BASE_URL : {Unset, "https://test.com/api"},
     REQUEST_TIMEOUT : {Unset, "60", "abc"},
     MAX_RETRIES : {Unset, "5", "1", "0", "-1", "abc"},
     RATE_LIMIT_DELAY : {Unset, "0.5", "abc"},
     DEBUG : {Unset, "true", "TRUE", "false", "1"}]

\* os.getenv(name): None when the variable is not set
getenv(env, name) == IF env[name] = Unset THEN PyNone ELSE env[name]

\* os.getenv(name, default)
getenv_default(env, name, default) == IF env[name] = Unset THEN default ELSE env[name]

\* the texts int() reads, among those explored, and what it reads them as
IntLiterals == {"30", "60", "3", "5", "1", "0", "-1"}
int(text) ==
    CASE text = "30" -> 30
      [] text = "60" -> 60
      [] text = "3" -> 3
      [] text = "5" -> 5
      [] text = "1" -> 1
      [] text = "0" -> 0
      [] text = "-1" -> 0 - 1

\* the texts float() reads, among those explored; a float is kept as a fraction
FloatLiterals == {"0.1", "0.5"}
float(text) ==
    CASE text = "0.1" -> [num |-> 1, den |-> 10]
      [] text = "0.5" -> [num |-> 1, den |-> 2]

\* str.lower() of the texts explored
lower(text) == IF text = "TRUE" THEN "true" ELSE text

\* the credential is refused only when it is not set
KeyRefused_UnsetOnly(key) == key = PyNone

\* not config['api_key']
KeyRefused(key) == key = PyNone \/ key = ""

\* what Config() gives: the configuration, or the exception raised
Constructed(config) == [ok |-> TRUE, exc |-> "None", message |-> "", config |-> config]
ConfigFailed(cls, message) ==
    [ok |-> FALSE, exc |-> cls, message |-> message, config |-> EmptyDict]

\* Config._load_config: the settings are read in the order of the dict
\* literal, then the credential is checked
_load_config(env) ==
    LET request_timeout == getenv_default(env, "REQUEST_TIMEOUT", "30")
        max_retries_ == getenv_default(env, "MAX_RETRIES", "3")
        rate_limit_delay_ == getenv_default(env, "RATE_LIMIT_DELAY", "0.1")
    IN IF request_timeout \notin IntLiterals
       THEN ConfigFailed("ValueError", "invalid literal for int()")
       ELSE IF max_retries_ \notin IntLiterals
       THEN ConfigFailed("ValueError", "invalid literal for int()")
       ELSE IF rate_limit_delay_ \notin FloatLiterals
       THEN ConfigFailed("ValueError", "could not convert string to float")
       ELSE IF KeyRefused(getenv(env, "EODHD_API_KEY"))
       THEN ConfigFailed("ValueError", "EODHD_API_KEY environment variable is required")
       ELSE Constructed(
               [api_key |-> getenv(env, "EODHD_API_KEY"),
                base_url |-> getenv_default(env, "EODHD_BASE_URL", "https://eodhd.com/api"),
                request_timeout |-> int(request_timeout),
                max_retries |-> int(max_retries_),
                rate_limit_delay |-> float(rate_limit_delay_),
                debug |-> lower(getenv_default(env, "DEBUG", "false")) = "true"])

\* Config.get(key, default)
Config_get(config, key, default) == IF key \in DOMAIN config THEN config[key] ELSE default

\* the keys and defaults get is called with
GetKeys == {"api_key", "base_url", "nonexistent_key"}
GetDefaults == {PyNone, "default"}

InitConfig ==
    /\ ToolIdle
    /\ \E env \in Environments :
          call = [fn |-> "Config", env |-> env, key |-> "", default |-> PyNone]
    /\ ret = Pending

\* config = Config()
ConstructConfig ==
    /\ call.fn = "Config"
    /\ ret = Pending
    /\ ret' = [done |-> TRUE, value |-> _load_config(call.env), got |-> PyNone]
    /\ UNCHANGED <<toolVars, call>>

\* config.get(key, default) on a constructed configuration
ConfigGet ==
    /\ call.fn = "Config"
    /\ ret # Pending
    /\ ret.value.ok
    /\ \E key \in GetKeys, default \in GetDefaults :
          /\ call' = [fn |-> "Config.get", env |-> call.env, key |-> key, default |-> default]
          /\ ret' = [ret EXCEPT !.got = Config_get(ret.value.config, key, default)]
    /\ UNCHANGED toolVars

NextConfig == ConstructConfig \/ ConfigGet

SpecConfig == InitConfig /\ [][NextConfig]_vars

(***************************************************************************)
(* process_earnings_data, and the two date conversions side by side         *)
(***************************************************************************)
\* date_columns, in the order the sort looks for them
EarningsDateColumns == <<"date", "report_date", "earnings_date">>

\* the numeric columns of the earnings table explored (of estimate, actual,
\* difference, surprise_pct)
EarningsNumericColumns == {"actual"}

EarningsColumns == {"code", "date", "report_date", "earnings_date", "actual"}

\* the raw numbers explored
RawActuals == {Str(9), Bad}

\* position of a date column in date_columns
DateRank(c) == CHOOSE r \in 1..Len(EarningsDateColumns) : EarningsDateColumns[r] = c

\* record k of n: its date d is under the key `key`; when later_ is set the
\* date columns after `key` hold dates running the other way
EarningsRecord(key, later_, k, n, d, a) ==
    LET cell(c) == IF c = key THEN d
                   ELSE IF later_ /\ DateRank(c) > DateRank(key) THEN Str(n + 1 - k)
                   ELSE Absent
    IN [code |-> Str(k), date |-> cell("date"), report_date |-> cell("report_date"),
        earnings_date |-> cell("earnings_date"), actual |-> a]

\* pd.DataFrame(raw_data) for earnings records
EarningsFrame(raw_data) ==
    [columns |-> {c \in EarningsColumns :
                     \E k \in 1..Len(raw_data) : raw_data[k][c] # Absent},
     rows |-> [k \in 1..Len(raw_data) |->
                 [index |-> k - 1, code |-> raw_data[k].code, date |-> raw_data[k].date,
                  report_date |-> raw_data[k].report_date,
                  earnings_date |-> raw_data[k].earnings_date,
                  actual |-> raw_data[k].actual]]]

\* pd.to_datetime without errors='coerce': a value that is no date fails it
CoerceFails_Raise(df, col) == \E k \in 1..Len(df.rows) : df.rows[k][col] = Bad

\* pd.to_datetime(df[col], errors='coerce') fails on no value
CoerceFails(df, col) == FALSE

\* pd.to_datetime(errors='coerce') on one value: NaT for what is no date
to_datetime_coerce(cell) == IF cell.t = "str" THEN cell.v ELSE Null

\* the conversions of the date and the numeric columns the table has; a
\* column the table lacks has no cells (they read Null here)
ConvertEarnings(df) ==
    [k \in 1..Len(df.rows) |->
        [c \in DOMAIN df.rows[k] |->
            IF c = "index" THEN df.rows[k][c]
            ELSE IF c \notin df.columns THEN Null
            ELSE IF \E r \in 1..Len(EarningsDateColumns) : EarningsDateColumns[r] = c
            THEN to_datetime_coerce(df.rows[k][c])
            ELSE IF c \in EarningsNumericColumns THEN to_numeric(df.rows[k][c])
            ELSE df.rows[k][c].v]]

\* DataFrame.sort_values(by): as sort_values, on the column by
sort_values_by(rows, by) ==
    LET n == Len(rows)
    IN {[i \in 1..n |-> rows[f[i]]] :
          f \in {g \in Perms(n) :
                   \A i, j \in 1..n : i < j => ~Before(rows[g[j]][by], rows[g[i]][by])}}

\* the column the earnings table is sorted by: the first of date,
\* report_date, earnings_date it has
EarningsSortColumn(columns) ==
    IF "date" \in columns THEN "date"
    ELSE IF "report_date" \in columns THEN "report_date"
    ELSE IF "earnings_date" \in columns THEN "earnings_date"
    ELSE "none"

\* DataProcessor.process_earnings_data: every outcome it may have
process_earnings_data(raw_data) ==
    IF raw_data = <<>> THEN {Returned([columns |-> {}, rows |-> <<>>])}
    ELSE LET df == EarningsFrame(raw_data)
             by == EarningsSortColumn(df.columns)
         IN IF \E r \in 1..Len(EarningsDateColumns) :
                   /\ EarningsDateColumns[r] \in df.columns
                   /\ CoerceFails(df, EarningsDateColumns[r])
            THEN {Raised("DataProcessingError")}
            ELSE LET orders == IF by = "none" THEN {ConvertEarnings(df)}
                               ELSE sort_values_by(ConvertEarnings(df), by)
                 IN {Returned([columns |-> df.columns, rows |-> reset_index(sorted)]) :
                        sorted \in orders}

\* the same dates, at most MaxRecords of them, as a list of EOD records and
\* as a list of earnings records; the number is given alike throughout a list
InitDates ==
    /\ ToolIdle
    /\ \E n \in 0..MaxRecords, r \in 1..Len(EarningsDateColumns), later_ \in BOOLEAN,
          a \in RawActuals :
          \E x \in [1..n -> RawDates] :
              call = [fn |-> "dates",
                      eod_data |-> [k \in 1..n |-> RawRecord(x[k], Num(1), a)],
                      earnings_data |-> [k \in 1..n |->
                          EarningsRecord(EarningsDateColumns[r], later_, k, n, x[k], a)]]
    /\ ret = [eod |-> Pending, earnings |-> Pending]

ProcessEodDates ==
    /\ call.fn = "dates"
    /\ ret.eod = Pending
    /\ \E r \in process_eod_data(call.eod_data) :
          ret' = [ret EXCEPT !.eod = [done |-> TRUE, value |-> r]]
    /\ UNCHANGED <<toolVars, call>>

ProcessEarningsDates ==
    /\ call.fn = "dates"
    /\ ret.earnings = Pending
    /\ \E r \in process_earnings_data(call.earnings_data) :
          ret' = [ret EXCEPT !.earnings = [done |-> TRUE, value |-> r]]
    /\ UNCHANGED <<toolVars, call>>

NextDates == ProcessEodDates \/ ProcessEarningsDates

SpecDates == InitDates /\ [][NextDates]_vars

(***************************************************************************)
(* Tool invocations in progress together.  The host starts each tool as a   *)
(* coroutine on one event loop: an invocation runs until it awaits          *)
(* (client.get, asyncio.sleep, client.aclose) and another may run then.     *)
(* Each has its own EODHDClient and its own locals; the module-level config *)
(* (max_retries, rate_limit_delay) is what they share.                      *)
(***************************************************************************)
\* the variables of an invocation made alone
aloneVars ==
    <<tool, input, pc, arg, clientState, attempt, requests, sleeps, responses,
      payload, exc, result, call, ret>>

\* the invocations made together: the tool and the input of each
Together ==
    [a |-> [tool |-> "get_stock_price", input |-> <<"a">>],
     b |-> [tool |-> "get_fundamentals", input |-> <<" ", "a", "a">>]]

\* the locals of one invocation and the state of its client
Invocation(t, s) ==
    [tool |-> t, input |-> s, pc |-> "validate", arg |-> <<>>, clientState |-> "none",
     client_api_key |-> "", attempt |-> 0, requests |-> 0, sent |-> <<>>, sleeps |-> <<>>, responses |-> <<>>,
     payload |-> "none", exc |-> NoExc, result |-> NoResult]

\* the loop counter is one counter for all invocations
NextAttempt_Shared(invs, i) ==
    [j \in DOMAIN invs |->
        IF j = i THEN [invs[j] EXCEPT !.attempt = @ + 1, !.pc = "request"]
        ELSE [invs[j] EXCEPT !.attempt = @ + 1]]

\* for attempt in range(self.max_retries): attempt is a local of the call
NextAttempt(invs, i) ==
    [invs EXCEPT ![i] = [@ EXCEPT !.attempt = @ + 1, !.pc = "request"]]

InitTogether ==
    /\ tool = "none"
    /\ input = <<>>
    /\ max_retries \in 0..MaxRetriesTogether
    /\ rate_limit_delay \in RateLimitDelays
    /\ pc = "idle"
    /\ arg = <<>>
    /\ clientState = "none"
    /\ attempt = 0
    /\ requests = 0
    /\ sleeps = <<>>
    /\ responses = <<>>
    /\ payload = "none"
    /\ exc = NoExc
    /\ result = NoResult
    /\ call = NoCall
    /\ ret = Pending
    /\ invocations = [i \in DOMAIN Together |-> Invocation(Together[i].tool, Together[i].input)]
    /\ api_key \in ApiKeys

\* invocation i becomes r; nothing else changes
Becomes(i, r) ==
    /\ invocations' = [invocations EXCEPT ![i] = r]
    /\ UNCHANGED <<aloneVars, max_retries, rate_limit_delay, api_key>>

\* the credential goes with the first attempt only
RequestOf_TokenOnFirst(v) ==
    [tool |-> v.tool, arg |-> v.arg,
     api_token |-> IF v.attempt = 0 THEN v.client_api_key ELSE ""]

\* the request an invocation sends: its endpoint and its params, with
\* params['api_token'] = self.api_key
RequestOf(v) == [tool |-> v.tool, arg |-> v.arg, api_token |-> v.client_api_key]

ValidateOf(i) ==
    LET v == invocations[i]
    IN /\ v.pc = "validate"
       /\ IF RequiresInput(v.tool) /\ IsBlank(v.input)
          THEN Becomes(i, [v EXCEPT !.result = MakeResult("error", "", RequiredMessage(v.tool)),
                                    !.pc = "returned"])
          ELSE Becomes(i, [v EXCEPT !.arg = Normalize(v.tool, v.input), !.pc = "open"])

OpenClientOf(i) ==
    LET v == invocations[i]
    IN /\ v.pc = "open"
       /\ Becomes(i, [v EXCEPT !.clientState = "open", !.client_api_key = api_key,
                               !.attempt = 0, !.pc = "request"])

ReceiveResponseOf(i) ==
    LET v == invocations[i]
    IN /\ v.pc = "request"
       /\ v.attempt < max_retries
       /\ \E u \in Upstream :
            LET w == [v EXCEPT !.requests = @ + 1, !.sent = Append(@, RequestOf(v)),
                               !.responses = Append(@, u)]
                r == _handle_response(u)
            IN IF RetryOn429(u.status_code, v.attempt, max_retries)
               THEN Becomes(i, [w EXCEPT !.sleeps = Append(@, BackoffDelay(rate_limit_delay, v.attempt)),
                                         !.pc = "sleep"])
               ELSE IF r.raised
               THEN Becomes(i, [w EXCEPT !.exc = r.exc, !.pc = "close"])
               ELSE Becomes(i, [w EXCEPT !.payload = r.value, !.pc = "process"])

RequestErrorOf(i) ==
    LET v == invocations[i]
        w == [v EXCEPT !.requests = @ + 1, !.sent = Append(@, RequestOf(v)),
                       !.responses = Append(@, Failure("RequestError"))]
    IN /\ v.pc = "request"
       /\ v.attempt < max_retries
       /\ IF IsFinalAttempt(v.attempt, max_retries)
          THEN Becomes(i, [w EXCEPT !.exc = MakeError("NetworkError", NoStatus,
                                                      "Network error after attempts"),
                                    !.pc = "close"])
          ELSE Becomes(i, [w EXCEPT !.sleeps = Append(@, BackoffDelay(rate_limit_delay, v.attempt)),
                                    !.pc = "sleep"])

RequestRaisesOf(i) ==
    LET v == invocations[i]
    IN /\ v.pc = "request"
       /\ v.attempt < max_retries
       /\ Becomes(i, [v EXCEPT !.requests = @ + 1, !.sent = Append(@, RequestOf(v)),
                               !.responses = Append(@, Failure("InvalidURL")),
                               !.exc = MakeError("InvalidURL", NoStatus, "invalid URL"),
                               !.pc = "close"])

WakeUpOf(i) ==
    /\ invocations[i].pc = "sleep"
    /\ invocations' = NextAttempt(invocations, i)
    /\ UNCHANGED <<aloneVars, max_retries, rate_limit_delay, api_key>>

ExhaustedOf(i) ==
    LET v == invocations[i]
    IN /\ v.pc = "request"
       /\ ~(v.attempt < max_retries)
       /\ Becomes(i, [v EXCEPT !.exc = MakeError("NetworkError", NoStatus,
                                                 "Failed to make request after attempts"),
                               !.pc = "close"])

ProcessOf(i) ==
    LET v == invocations[i]
        r == ToolProcess(v.tool, v.payload)
    IN /\ v.pc = "process"
       /\ Becomes(i, [v EXCEPT !.exc = r.exc, !.result = r.result, !.pc = "close"])

CloseClientOf(i) ==
    LET v == invocations[i]
    IN /\ v.pc = "close"
       /\ Becomes(i, [v EXCEPT !.clientState = "closed",
                               !.pc = IF v.exc # NoExc THEN "handle" ELSE "returned"])

HandleExceptionOf(i) ==
    LET v == invocations[i]
        h == ToolHandler(v.exc)
    IN /\ v.pc = "handle"
       /\ Becomes(i, [v EXCEPT !.result = h.result,
                               !.pc = IF h.escaped THEN "raised" ELSE "returned"])

NextTogether ==
    \E i \in DOMAIN Together :
        \/ ValidateOf(i)
        \/ OpenClientOf(i)
        \/ ReceiveResponseOf(i)
        \/ RequestErrorOf(i)
        \/ RequestRaisesOf(i)
        \/ WakeUpOf(i)
        \/ ExhaustedOf(i)
        \/ ProcessOf(i)
        \/ CloseClientOf(i)
        \/ HandleExceptionOf(i)

SpecTogether == InitTogether /\ [][NextTogether]_vars

(***************************************************************************)
(* Notions the claims are stated in.                                        *)
(***************************************************************************)
\* the upstream answers after which _make_request may try again
Retryable(u) ==
    \/ u.kind = "response" /\ u.status_code = 429
    \/ u.kind = "RequestError"

\* a response that decodes: status below 400 and a JSON body
Succeeds(u) == u.kind = "response" /\ u.status_code < 400 /\ u.body # "not_json"

\* _make_request is over: the call returned or raised
RequestOver == pc \in {"process", "close", "handle", "returned", "raised"}

\* the request loop is between two attempts, the next one still allowed
BetweenAttempts(k) ==
    /\ pc \in {"sleep", "request"}
    /\ Len(sleeps) = k
    /\ attempt = (IF pc = "sleep" THEN k - 1 ELSE k)
    /\ k < max_retries

\* s is empty or holds whitespace only
WhitespaceOnly(s) == \A k \in 1..Len(s) : s[k] \in Whitespace

\* s without its leading and trailing whitespace
Trimmed(s) ==
    LET solid == {k \in 1..Len(s) : s[k] \notin Whitespace}
    IN IF solid = {} THEN <<>>
       ELSE SubSeq(s, CHOOSE k \in solid : \A m \in solid : k <= m,
                      CHOOSE k \in solid : \A m \in solid : k >= m)

TrimmedUpper(s) == [k \in 1..Len(Trimmed(s)) |-> UpperChar(Trimmed(s)[k])]

(***************************************************************************)
(* C1: a 429 on an attempt that is not the final one is followed by a sleep *)
(* and another attempt; a 429 on the final attempt ends the call with       *)
(* RateLimitError carrying status 429; so max_retries consecutive 429       *)
(* responses end in RateLimitError after exactly max_retries requests.      *)
(***************************************************************************)
C1_RateLimitRetry ==
    /\ \A k \in 1..Len(responses) :
          (responses[k].kind = "response" /\ responses[k].status_code = 429) =>
             IF k - 1 < max_retries - 1
             THEN \/ k < Len(responses) /\ Len(sleeps) >= k
                  \/ k = Len(responses) /\ BetweenAttempts(k)
             ELSE /\ k = Len(responses)
                  /\ RequestOver
                  /\ exc.cls = "RateLimitError"
                  /\ exc.status_code = 429
    /\ ( /\ max_retries >= 1
         /\ Len(responses) = max_retries
         /\ \A k \in 1..Len(responses) :
               responses[k].kind = "response" /\ responses[k].status_code = 429 )
       => /\ exc.cls = "RateLimitError"
          /\ requests = max_retries
          /\ RequestOver

C1_Witness ==
    /\ pc = "returned"
    /\ max_retries = 3
    /\ Len(responses) = 3
    /\ \A k \in 1..3 : responses[k].status_code = 429
    /\ exc.cls = "RateLimitError"
    /\ requests = 3

(***************************************************************************)
(* C2: a response with status 401, 404 or any other status >= 400 except    *)
(* 429, on any attempt, ends the call at once with AuthenticationError,     *)
(* DataNotFoundError or APIError, carrying that status code; no sleep and   *)
(* no further request follows it.                                           *)
(***************************************************************************)
C2_ErrorStatusEndsCall ==
    \A k \in 1..Len(responses) :
        LET u == responses[k]
        IN (u.kind = "response" /\ u.status_code >= 400 /\ u.status_code # 429) =>
              /\ k = Len(responses)
              /\ requests = k
              /\ Len(sleeps) = k - 1
              /\ RequestOver
              /\ exc.cls = (IF u.status_code = 401 THEN "AuthenticationError"
                            ELSE IF u.status_code = 404 THEN "DataNotFoundError"
                            ELSE "APIError")
              /\ exc.status_code = u.status_code

C2_Witness ==
    /\ pc = "returned"
    /\ Len(responses) = 2
    /\ responses[1].kind = "RequestError"
    /\ responses[2].status_code = 404
    /\ exc.cls = "DataNotFoundError"
    /\ Len(sleeps) = 1

(***************************************************************************)
(* C3: a transport failure on an attempt that is not the final one is       *)
(* followed by a backoff sleep and another attempt; on the final attempt it *)
(* ends the call with NetworkError; so max_retries consecutive transport    *)
(* failures end in NetworkError after exactly max_retries requests.         *)
(***************************************************************************)
C3_TransportRetry ==
    /\ \A k \in 1..Len(responses) :
          responses[k].kind = "RequestError" =>
             IF k - 1 < max_retries - 1
             THEN \/ k < Len(responses) /\ Len(sleeps) >= k
                  \/ k = Len(responses) /\ BetweenAttempts(k)
             ELSE /\ k = Len(responses)
                  /\ RequestOver
                  /\ exc.cls = "NetworkError"
                  /\ Len(sleeps) = k - 1
    /\ ( /\ max_retries >= 1
         /\ Len(responses) = max_retries
         /\ \A k \in 1..Len(responses) : responses[k].kind = "RequestError" )
       => /\ exc.cls = "NetworkError"
          /\ requests = max_retries
          /\ RequestOver

C3_Witness ==
    /\ pc = "returned"
    /\ max_retries = 3
    /\ Len(responses) = 3
    /\ \A k \in 1..3 : responses[k].kind = "RequestError"
    /\ exc.cls = "NetworkError"
    /\ requests = 3
    /\ Len(sleeps) = 2

(***************************************************************************)
(* C4: the sleep after failed attempt k (from 0) is rate_limit_delay * 2^k, *)
(* for a 429 and for a transport failure alike; when the first j attempts   *)
(* fail retryably and attempt j+1 succeeds, the call returns the decoded    *)
(* body after a total delay of rate_limit_delay * (2^j - 1).                *)
(***************************************************************************)
C4_BackoffDelays ==
    /\ \A k \in 1..Len(sleeps) :
          /\ sleeps[k] = rate_limit_delay * (2 ^ (k - 1))
          /\ Retryable(responses[k])
    /\ (responses # <<>> /\ Succeeds(responses[Len(responses)])) =>
          LET j == Len(responses) - 1
          IN /\ j < max_retries
             /\ \A k \in 1..j : Retryable(responses[k])
             /\ Len(sleeps) = j
             /\ SumSeq(sleeps) = rate_limit_delay * ((2 ^ j) - 1)
             /\ payload = responses[j + 1].body
             /\ pc \in {"process", "close", "handle", "returned"}

C4_Witness ==
    /\ Len(responses) = 4
    /\ responses[1].status_code = 429
    /\ responses[2].kind = "RequestError"
    /\ responses[3].status_code = 429
    /\ responses[4].status_code = 200
    /\ rate_limit_delay = 3
    /\ sleeps = <<3, 6, 12>>
    /\ payload = "data"
    /\ pc = "returned"

(***************************************************************************)
(* C5: every tool operation returns a string and never raises to the host,  *)
(* for every input and every outcome of the API Client (success, any        *)
(* classified error, any unexpected exception) and of the Data Processor.   *)
(***************************************************************************)
C5_ToolNeverRaises ==
    /\ pc # "raised"
    /\ pc = "returned" => result.type = "str"
    /\ ~(ENABLED Next) => pc = "returned"

C5_Witness ==
    /\ pc = "returned"
    /\ exc.cls = "InvalidURL"
    /\ result.type = "str"
    /\ result.category = "Unexpected"

(***************************************************************************)
(* C6: whenever the API Client or the Data Processor fails inside a tool    *)
(* invocation, the returned string reads "<Category> Error: <message>" and  *)
(* its prefix names the category of the error that occurred, for each kind  *)
(* of the taxonomy.  The category is read generously here: an error of the  *)
(* APIError family (AuthenticationError, RateLimitError, DataNotFoundError, *)
(* APIError) may be reported as "API"; and only the configurations the spec  *)
(* allows (max_retries >= 1) are looked at.                                 *)
(***************************************************************************)
Taxonomy ==
    {"AuthenticationError", "RateLimitError", "DataNotFoundError", "APIError",
     "NetworkError", "DataProcessingError"}

CategoryOf(cls) ==
    IF cls = "NetworkError" THEN "Network"
    ELSE IF cls = "DataProcessingError" THEN "Data Processing"
    ELSE "API"

C6_PrefixNamesCategory ==
    (pc = "returned" /\ exc.cls \in Taxonomy /\ max_retries >= 1) =>
        /\ result.kind = "error"
        /\ result.category = CategoryOf(exc.cls)

(***************************************************************************)
(* C7 as claimed: a required string input that is empty or whitespace-only  *)
(* gives an error string without a client being constructed or a request    *)
(* issued; for any other input the value passed to the API Client is the    *)
(* trimmed, upper-cased input.                                              *)
(***************************************************************************)
C7_BlankRefused ==
    (RequiresInput(tool) /\ WhitespaceOnly(input)) =>
        /\ clientState = "none"
        /\ requests = 0
        /\ pc \in {"validate", "returned"}
        /\ pc = "returned" => (result.type = "str" /\ result.kind = "error")

C7_AsClaimed ==
    /\ C7_BlankRefused
    /\ (RequiresInput(tool) /\ ~WhitespaceOnly(input) /\ pc # "validate") =>
          arg = TrimmedUpper(input)

(***************************************************************************)
(* C7 amended: as claimed, except that get_index_components passes the      *)
(* trimmed, upper-cased index code with ".INDX" appended when it does not   *)
(* already end with ".INDX".                                                *)
(***************************************************************************)
C7_NormalizedInput ==
    /\ C7_BlankRefused
    /\ (RequiresInput(tool) /\ ~WhitespaceOnly(input) /\ pc # "validate") =>
          LET t == TrimmedUpper(input)
              n == Len(t)
              suffixed == /\ n >= 5
                          /\ t[n - 4] = "." /\ t[n - 3] = "I" /\ t[n - 2] = "N"
                          /\ t[n - 1] = "D" /\ t[n] = "X"
          IN arg = (IF tool = "get_index_components" /\ ~suffixed
                    THEN t \o <<".", "I", "N", "D", "X">>
                    ELSE t)

C7_Witness ==
    /\ tool = "get_index_components"
    /\ input = <<" ", "a">>
    /\ arg = <<"A", ".", "I", "N", "D", "X">>
    /\ requests = 1
    /\ pc = "returned"

(***************************************************************************)
(* C8.  The p rows with the latest dates: a set of p row positions such     *)
(* that no row outside it sorts after a row inside it (NaT sorts last);     *)
(* without a date column, the last p positions.                             *)
(***************************************************************************)
LatestSets(df, q) ==
    LET n == Len(df.rows)
    IN IF "date" \in df.columns
       THEN {I \in SUBSET (1..n) :
               /\ Cardinality(I) = q
               /\ \A i \in I, j \in (1..n) \ I :
                     ~Before(df.rows[i].date, df.rows[j].date)}
       ELSE {(n - q + 1)..n}

RECURSIVE SumVolumes(_, _)
SumVolumes(df, I) ==
    IF I = {} THEN 0
    ELSE LET i == CHOOSE x \in I : TRUE
         IN df.rows[i].volume + SumVolumes(df, I \ {i})

\* v is the arithmetic mean of the volume values present in the rows I
IsMeanOf(v, df, I) ==
    LET present == {i \in I : df.rows[i].volume # Null}
    IN IF present = {} THEN v.kind = "NaN"
       ELSE /\ v.kind = "mean"
            /\ v.den > 0
            /\ v.num * Cardinality(present) = SumVolumes(df, present) * v.den

C8_NullCases ==
    ret.done =>
        \A q \in DOMAIN ret.value :
            (ret.value[q].kind = "None") <=>
                \/ Len(call.df.rows) = 0
                \/ call.df.columns = {}
                \/ "volume" \notin call.df.columns
                \/ Len(call.df.rows) < q

(***************************************************************************)
(* C8 as claimed: each requested period p maps to null when the table is    *)
(* empty, has no volume column or has fewer than p rows, and otherwise to   *)
(* the arithmetic mean of the volumes of the p rows with the latest dates,  *)
(* whatever the row order of the input: so whichever p rows qualify as the  *)
(* latest, the value is their mean.  Read generously: null volumes are left *)
(* out of the mean, and only tables whose rows all have a date are looked   *)
(* at.                                                                      *)
(***************************************************************************)
AllDated(df) == \A i \in 1..Len(df.rows) : df.rows[i].date # Null

C8_AsClaimed ==
    /\ C8_NullCases
    /\ (call.fn = "calculate_average_volume" /\ ret.done) =>
          \A q \in DOMAIN ret.value :
              (ret.value[q].kind # "None"
                 /\ ("date" \in call.df.columns => AllDated(call.df))) =>
                  \A I \in LatestSets(call.df, q) : IsMeanOf(ret.value[q], call.df, I)

(***************************************************************************)
(* C8 amended: each requested period p >= 1 maps to null when the table is  *)
(* empty, has no volume column or has fewer than p rows, and otherwise to   *)
(* the arithmetic mean of the non-null volumes (NaN when all are null) of   *)
(* the trailing p rows of the table sorted ascending by date (null dates    *)
(* last; input order without a date column).  When no two rows share a date *)
(* these are the p rows with the latest dates whatever the input order;     *)
(* rows of equal date are in no guaranteed order, so the value is the mean  *)
(* of one of the sets of p latest rows.                                     *)
(***************************************************************************)
DistinctDates(df) ==
    \A i, j \in 1..Len(df.rows) : i # j => df.rows[i].date # df.rows[j].date

C8_AverageVolume ==
    /\ C8_NullCases
    /\ (call.fn = "calculate_average_volume" /\ ret.done) =>
          \A q \in DOMAIN ret.value :
              ret.value[q].kind # "None" =>
                  /\ \E I \in LatestSets(call.df, q) :
                        IsMeanOf(ret.value[q], call.df, I)
                  /\ ("date" \in call.df.columns /\ DistinctDates(call.df)) =>
                        \A I \in LatestSets(call.df, q) :
                            IsMeanOf(ret.value[q], call.df, I)

C8_Witness ==
    /\ call.fn = "calculate_average_volume"
    /\ ret.done
    /\ call.df.columns = {"date", "volume"}
    /\ call.df.rows = <<[date |-> 3, volume |-> 2], [date |-> 1, volume |-> 2],
                        [date |-> 2, volume |-> 1]>>
    /\ call.periods = [none |-> FALSE, values |-> 1..3]
    /\ ret.value[2] = MeanValue(3, 2)
    /\ ret.value[1] = MeanValue(2, 1)

(***************************************************************************)
(* C9: on a series of non-null numbers _determine_trend returns 'N/A' when  *)
(* the series has fewer than two values, 'increasing' when every successive *)
(* difference is strictly positive, 'decreasing' when every one is strictly *)
(* negative, and 'mixed' in every other case (any plateau, any change of    *)
(* sign); an all-null series gives 'N/A'.                                   *)
(***************************************************************************)
NoNulls(x) == \A k \in 1..Len(x) : x[k] # Null

C9_Trend ==
    (call.fn = "_determine_trend" /\ ret.done) =>
        LET x == call.series
            n == Len(x)
            rising == \A k \in 2..n : x[k] > x[k - 1]
            falling == \A k \in 2..n : x[k] < x[k - 1]
        IN /\ (\A k \in 1..n : x[k] = Null) => ret.value = "N/A"
           /\ NoNulls(x) =>
                 ret.value = (IF n < 2 THEN "N/A"
                              ELSE IF rising THEN "increasing"
                              ELSE IF falling THEN "decreasing"
                              ELSE "mixed")

C9_Witness ==
    /\ call.fn = "_determine_trend"
    /\ ret.done
    /\ call.series = <<0, 1, 1, 2>>
    /\ ret.value = "mixed"

(***************************************************************************)
(* C10.  The table a list of records should give: row k of the result is    *)
(* the record f[k] with its date read, its numbers read and whatever is     *)
(* absent or unreadable as a number null.                                   *)
(***************************************************************************)
ExpectedCell(c, cell) ==
    IF c = "date" THEN (IF cell.t = "str" THEN cell.v ELSE Null)
    ELSE (IF cell.t \in {"num", "str"} THEN cell.v ELSE Null)

IsTableOf(value, raw) ==
    LET n == Len(raw)
    IN /\ value.ok
       /\ Len(value.rows) = n
       /\ RequiredColumns \subseteq value.columns
       /\ \A k \in 1..n : value.rows[k].index = k - 1
       /\ \A i, j \in 1..n :
             i < j => ~Before(value.rows[j].date, value.rows[i].date)
       /\ \E f \in Perms(n) :
             \A k \in 1..n : \A c \in RequiredColumns :
                 value.rows[k][c] = ExpectedCell(c, raw[f[k]][c])
       /\ \A c \in RequiredColumns :
             (\A k \in 1..n : raw[k][c] = Absent) =>
                 \A k \in 1..n : value.rows[k][c] = Null

C10_EmptyInput ==
    (call.fn = "process_eod_data" /\ ret.done /\ call.raw_data = <<>>) =>
        /\ ret.value.ok
        /\ ret.value.rows = <<>>

(***************************************************************************)
(* C10 as claimed: a non-empty list of N records gives a table of exactly N *)
(* rows renumbered 0..N-1, sorted ascending by date, with all six columns;  *)
(* a required column absent from every record is a column of nulls and an   *)
(* unparseable number becomes null; an empty input gives an empty table.    *)
(***************************************************************************)
C10_AsClaimed ==
    /\ C10_EmptyInput
    /\ (call.fn = "process_eod_data" /\ ret.done /\ call.raw_data # <<>>) =>
          IsTableOf(ret.value, call.raw_data)

(***************************************************************************)
(* C10 amended: as claimed for a non-empty list of N records none of whose  *)
(* date values is unparseable (rows without a date sort last); when some    *)
(* record's date cannot be parsed the call fails with DataProcessingError   *)
(* and returns no table.                                                    *)
(***************************************************************************)
SomeDateUnparseable(raw) == \E k \in 1..Len(raw) : raw[k].date.t = "bad"

C10_EodTable ==
    /\ C10_EmptyInput
    /\ (call.fn = "process_eod_data" /\ ret.done /\ call.raw_data # <<>>) =>
          IF SomeDateUnparseable(call.raw_data)
          THEN ~ret.value.ok /\ ret.value.exc = "DataProcessingError"
          ELSE IsTableOf(ret.value, call.raw_data)

C10_Witness ==
    /\ call.fn = "process_eod_data"
    /\ ret.done
    /\ call.raw_data =
          <<[date |-> Str(2), open |-> Absent, high |-> Absent, low |-> Absent,
             close |-> Absent, volume |-> Bad],
            [date |-> Str(1), open |-> Absent, high |-> Absent, low |-> Absent,
             close |-> Absent, volume |-> Str(9)],
            [date |-> Str(1), open |-> Absent, high |-> Absent, low |-> Absent,
             close |-> Absent, volume |-> Str(9)]>>
    /\ ret.value.ok
    /\ Len(ret.value.rows) = 3
    /\ ret.value.rows[3] = [index |-> 2, date |-> 2, open |-> Null, high |-> Null,
                            low |-> Null, close |-> Null, volume |-> Null]
    /\ ret.value.rows[1].volume = 9
    /\ ret.value.rows[2].volume = 9

(***************************************************************************)
(* C11.  Key i of the four is the first one present in the response.        *)
(***************************************************************************)
IsFirstPresent(response, i) ==
    /\ response.keys[IndexKeys[i]] # NoValue
    /\ \A j \in 1..(i - 1) : response.keys[IndexKeys[j]] = NoValue

NoKeyPresent(response) == \A i \in 1..4 : response.keys[IndexKeys[i]] = NoValue

\* get_index_components has returned call.raw_data for the mapping call.response
Extracted ==
    /\ call.fn \in {"process_index_components", "no_index_components"}
    /\ call.response.t = "dict"

\* the response {"Components": {"AAPL": {"weight": 5}, "MSFT": {"weight": 3}}}
ExampleComponents ==
    DictValue(<<[key |-> "AAPL", fields |-> Row(Missing, Missing, Missing, Num(5), Absent)],
                [key |-> "MSFT", fields |-> Row(Missing, Missing, Missing, Num(3), Absent)]>>)

C11_SequenceOrNone ==
    Extracted =>
        /\ \A i \in 1..4 :
              LET v == call.response.keys[IndexKeys[i]]
              IN (IsFirstPresent(call.response, i) /\ v.t = "list") =>
                     call.raw_data = v.items
        /\ NoKeyPresent(call.response) => call.raw_data = <<call.response.own>>

C11_Example ==
    (Extracted /\ call.response.keys["Components"] = ExampleComponents /\ ret.done) =>
        /\ Len(ret.value.rows) = 2
        /\ ret.value.rows[1].symbol = "AAPL" /\ ret.value.rows[1].weight = 5
        /\ ret.value.rows[2].symbol = "MSFT" /\ ret.value.rows[2].weight = 3

(***************************************************************************)
(* C11 as claimed: get_index_components takes the first present key among   *)
(* Components, components, Holdings, holdings; a mapping keyed by symbol    *)
(* gives one record per entry, in entry order, whose symbol field equals    *)
(* the entry's key and whose other fields are the entry's own; a sequence   *)
(* is returned unchanged; with none of the keys the result is [response];   *)
(* the example response followed by process_index_components gives the two  *)
(* rows AAPL (5) then MSFT (3).                                             *)
(***************************************************************************)
C11_AsClaimed ==
    /\ C11_SequenceOrNone
    /\ C11_Example
    /\ Extracted =>
          \A i \in 1..4 :
              LET v == call.response.keys[IndexKeys[i]]
              IN (IsFirstPresent(call.response, i) /\ v.t = "dict") =>
                    /\ Len(call.raw_data) = Len(v.entries)
                    /\ \A k \in 1..Len(v.entries) :
                          /\ call.raw_data[k].symbol = v.entries[k].key
                          /\ \A c \in ComponentColumns \ {"symbol"} :
                                call.raw_data[k][c] = v.entries[k].fields[c]

(***************************************************************************)
(* C11 amended: as claimed, except that the symbol field of a record is the *)
(* entry's own symbol field when the entry has one, and the entry's key     *)
(* only otherwise (every entry of the mapping being itself a mapping).      *)
(***************************************************************************)
C11_IndexComponents ==
    /\ C11_SequenceOrNone
    /\ C11_Example
    /\ Extracted =>
          \A i \in 1..4 :
              LET v == call.response.keys[IndexKeys[i]]
              IN (IsFirstPresent(call.response, i) /\ v.t = "dict") =>
                    /\ Len(call.raw_data) = Len(v.entries)
                    /\ \A k \in 1..Len(v.entries) :
                          /\ call.raw_data[k].symbol =
                                IF v.entries[k].fields.symbol # Missing
                                THEN v.entries[k].fields.symbol
                                ELSE v.entries[k].key
                          /\ \A c \in ComponentColumns \ {"symbol"} :
                                call.raw_data[k][c] = v.entries[k].fields[c]

C11_Witness ==
    /\ Extracted
    /\ call.response.keys["Components"] = ExampleComponents
    /\ call.response.keys["holdings"] # NoValue
    /\ ret.done
    /\ Len(ret.value.rows) = 2
    /\ ret.value.rows[1].symbol = "AAPL"
    /\ ret.value.rows[2].symbol = "MSFT"

(***************************************************************************)
(* C12.  What a weight cell reads as, the weight column the table is sorted *)
(* on, and the result being the records raw[f[1]], raw[f[2]], ... with their*)
(* weights read and their rows renumbered from 0.                           *)
(***************************************************************************)
WeightRead(cell) == IF cell.t \in {"num", "str"} THEN cell.v ELSE Null

HasColumn(raw, c) == \E k \in 1..Len(raw) : raw[k][c] # Absent

SortColumn(raw) ==
    IF HasColumn(raw, "weight") THEN "weight"
    ELSE IF HasColumn(raw, "Weight") THEN "Weight"
    ELSE "none"

IsArrangement(value, raw, f) ==
    /\ Len(value.rows) = Len(raw)
    /\ \A k \in 1..Len(raw) :
          /\ value.rows[k].index = k - 1
          /\ value.rows[k].Symbol = raw[f[k]].Symbol
          /\ value.rows[k].Code = raw[f[k]].Code
          /\ raw[f[k]].symbol # Missing => value.rows[k].symbol = raw[f[k]].symbol
          /\ value.rows[k].weight = WeightRead(raw[f[k]].weight)
          /\ value.rows[k].Weight = WeightRead(raw[f[k]].Weight)

\* f lists the records by descending value of column c, missing values last
Descending(raw, f, c) ==
    \A i, j \in 1..Len(raw) :
        i < j => ~Above(WeightRead(raw[f[j]][c]), WeightRead(raw[f[i]][c]))

\* f keeps records of equal value in column c in their input order
KeepsTies(raw, f, c) ==
    \A i, j \in 1..Len(raw) :
        (i < j /\ WeightRead(raw[f[i]][c]) = WeightRead(raw[f[j]][c])) => f[i] < f[j]

ComponentsDone == call.fn = "process_index_components" /\ call.response.t = "none" /\ ret.done

C12_Unsorted ==
    (ComponentsDone /\ SortColumn(call.raw_data) = "none") =>
        IsArrangement(ret.value, call.raw_data, [k \in 1..Len(call.raw_data) |-> k])

ResultKey ==
    [General |-> "general", Highlights |-> "highlights", Valuation |-> "valuation",
     Financials |-> "financials", Technicals |-> "technicals"]

FundamentalsProcessed == call.fn = "process_fundamentals_data" /\ ret.done

C13_NothingSynthesized ==
    FundamentalsProcessed =>
        /\ ret.value.keys \subseteq {ResultKey[sec] : sec \in RawSections}
        /\ \A sec \in RawSections :
              ResultKey[sec] \in ret.value.keys => sec \in call.raw_data.keys
        /\ \A sec \in {"Valuation", "Financials", "Technicals"} :
              ResultKey[sec] \in ret.value.keys =>
                  ret.value[ResultKey[sec]] = call.raw_data[sec]
        /\ call.raw_data.keys = {} => ret.value.keys = {}

(***************************************************************************)
(* C13 as claimed: the keys of the result are among general, highlights,    *)
(* valuation, financials, technicals; for each of Valuation, Financials and *)
(* Technicals the result has the lowercase key exactly when the raw input   *)
(* has that section, with the value unchanged; general and highlights       *)
(* appear only when General and Highlights are present upstream; no section *)
(* is synthesized and an empty raw input gives an empty result.             *)
(***************************************************************************)
C13_AsClaimed ==
    /\ C13_NothingSynthesized
    /\ FundamentalsProcessed =>
          \A sec \in {"Valuation", "Financials", "Technicals"} :
              sec \in call.raw_data.keys => ResultKey[sec] \in ret.value.keys

(***************************************************************************)
(* C13 amended: as claimed for Financials and Technicals; the result has    *)
(* the key valuation exactly when the raw input has a Valuation section     *)
(* that is not empty (an empty Valuation section is omitted).               *)
(***************************************************************************)
C13_Sections ==
    /\ C13_NothingSynthesized
    /\ FundamentalsProcessed =>
          /\ \A sec \in {"Financials", "Technicals"} :
                sec \in call.raw_data.keys => ResultKey[sec] \in ret.value.keys
          /\ "valuation" \in ret.value.keys <=>
                ("Valuation" \in call.raw_data.keys
                    /\ call.raw_data["Valuation"] # EmptyDict)

C13_Witness ==
    /\ FundamentalsProcessed
    /\ call.raw_data.keys = {"Valuation", "Financials", "Technicals"}
    /\ call.raw_data["Valuation"] = EmptyDict
    /\ call.raw_data["Financials"] = EmptyDict
    /\ call.raw_data["Technicals"] # EmptyDict
    /\ ret.value.keys = {"financials", "technicals"}
    /\ ret.value["technicals"] = call.raw_data["Technicals"]

(***************************************************************************)
(* C14: format_for_display(snapshot, 'fundamentals') renders "N/A" for      *)
(* every displayed field that is absent and the field's value otherwise,    *)
(* in particular for a snapshot that process_fundamentals_data made from a  *)
(* raw input whose General or Highlights section lacks the field: with      *)
(* General.Code = AAPL and Highlights.PERatio = 25.5 alone, these two       *)
(* appear and every other displayed field reads N/A.  Read generously: only *)
(* the fields of a block that is rendered are looked at.                    *)
(***************************************************************************)
DisplayedFields ==
    {[section |-> "General", field |-> "Name", label |-> "Company"],
     [section |-> "General", field |-> "Code", label |-> "Symbol"],
     [section |-> "General", field |-> "Sector", label |-> "Sector"],
     [section |-> "General", field |-> "Industry", label |-> "Industry"],
     [section |-> "General", field |-> "MarketCapitalization", label |-> "Market Cap"],
     [section |-> "Highlights", field |-> "PERatio", label |-> "P/E Ratio"],
     [section |-> "Highlights", field |-> "DilutedEpsTTM", label |-> "EPS (TTM)"],
     [section |-> "Highlights", field |-> "RevenueTTM", label |-> "Revenue (TTM)"],
     [section |-> "Highlights", field |-> "ProfitMargin", label |-> "Profit Margin"],
     [section |-> "Highlights", field |-> "DividendYield", label |-> "Dividend Yield"]}

Rendered(lines, label, text) ==
    \E k \in 1..Len(lines) : lines[k].label = label /\ lines[k].text = text

C14_AbsentReadsNA ==
    call.fn = "format_for_display" =>
        \A d \in DisplayedFields :
            (\E k \in 1..Len(ret.value) : ret.value[k].label = d.label) =>
                Rendered(ret.value, d.label,
                         IF d.field \in DOMAIN call.raw_data[d.section]
                         THEN call.raw_data[d.section][d.field]
                         ELSE "N/A")

(***************************************************************************)
(* C15.  Config() has run on the environment call.env.                      *)
(***************************************************************************)
ConfigDone == call.fn \in {"Config", "Config.get"} /\ ret # Pending

CredentialSupplied(env) == env["EODHD_API_KEY"] \notin {Unset, ""}

\* what a constructed configuration holds, and what get gives for a key it
\* does not have
C15_WhenConstructed ==
    (ConfigDone /\ ret.value.ok) =>
        LET config == ret.value.config
            env == call.env
        IN /\ config["api_key"] = env["EODHD_API_KEY"]
           /\ env["EODHD_BASE_URL"] = Unset => config["base_url"] = "https://eodhd.com/api"
           /\ env["REQUEST_TIMEOUT"] = Unset => config["request_timeout"] = 30
           /\ env["MAX_RETRIES"] = Unset => config["max_retries"] = 3
           /\ env["RATE_LIMIT_DELAY"] = Unset =>
                 config["rate_limit_delay"] = [num |-> 1, den |-> 10]
           /\ env["DEBUG"] = Unset => config["debug"] = FALSE
           /\ (call.fn = "Config.get" /\ call.key = "nonexistent_key") =>
                 ret.got = call.default

(***************************************************************************)
(* C15 as claimed: constructing a Config fails exactly when EODHD_API_KEY   *)
(* is missing or empty; otherwise it succeeds, api_key is the credential    *)
(* supplied, every setting not supplied takes its default (base URL         *)
(* https://eodhd.com/api, timeout 30, max retries 3, retry delay 0.1, debug *)
(* false) and get(key, default) returns the default for an unknown key.     *)
(***************************************************************************)
C15_AsClaimed ==
    /\ ConfigDone => (~ret.value.ok <=> ~CredentialSupplied(call.env))
    /\ C15_WhenConstructed

(***************************************************************************)
(* C15 amended: constructing a Config fails exactly when EODHD_API_KEY is   *)
(* missing or empty, or REQUEST_TIMEOUT or MAX_RETRIES is set to a text     *)
(* that int() does not read, or RATE_LIMIT_DELAY is set to a text that      *)
(* float() does not read; otherwise as claimed.                             *)
(***************************************************************************)
ReadsAsInt(text) == text \in {"60", "5", "1", "0", "-1"}
ReadsAsFloat(text) == text = "0.5"

SettingsReadable(env) ==
    /\ env["REQUEST_TIMEOUT"] # Unset => ReadsAsInt(env["REQUEST_TIMEOUT"])
    /\ env["MAX_RETRIES"] # Unset => ReadsAsInt(env["MAX_RETRIES"])
    /\ env["RATE_LIMIT_DELAY"] # Unset => ReadsAsFloat(env["RATE_LIMIT_DELAY"])

C15_ConfigConstruction ==
    /\ ConfigDone =>
          (~ret.value.ok <=> (~CredentialSupplied(call.env) \/ ~SettingsReadable(call.env)))
    /\ C15_WhenConstructed

C15_Witness ==
    /\ call.fn = "Config.get"
    /\ call.env = [EODHD_API_KEY |-> "test_key", EODHD_BASE_URL |-> Unset,
                   REQUEST_TIMEOUT |-> Unset, MAX_RETRIES |-> Unset,
                   RATE_LIMIT_DELAY |-> Unset, DEBUG |-> Unset]
    /\ call.key = "nonexistent_key"
    /\ call.default = "default"
    /\ ret.value.ok
    /\ ret.value.config["max_retries"] = 3
    /\ ret.got = "default"

(***************************************************************************)
(* C16: every successfully constructed configuration has max_retries an     *)
(* integer >= 1 (so that every client built from it makes at least one      *)
(* attempt per request).                                                    *)
(***************************************************************************)
C16_MaxRetriesAtLeastOne ==
    (ConfigDone /\ ret.value.ok) => ret.value.config["max_retries"] >= 1

(***************************************************************************)
(* C17: the Tool Surface exposes an operation get_volume_averages(symbol,   *)
(* periods="20,60") that fetches EOD data, computes the average volume of   *)
(* each requested period and returns a string reporting them: whenever the  *)
(* Tool Surface takes an invocation, the operation is among the tools       *)
(* server.py has registered.                                                *)
(***************************************************************************)
C17_VolumeAveragesExposed == pc = "validate" => "get_volume_averages" \in Tools

(***************************************************************************)
(* C18: _determine_trend drops the nulls of the series first and then takes *)
(* the successive differences of the values that remain: non-null values    *)
(* strictly increasing (decreasing) in order give 'increasing'              *)
(* ('decreasing') even with nulls between them, e.g. [1, null, 3]; 'N/A'    *)
(* results only when fewer than two non-null values remain.                 *)
(***************************************************************************)
NonNull(x) == SelectSeq(x, LAMBDA v : v # Null)

C18_NullsDroppedFirst ==
    (call.fn = "_determine_trend" /\ ret.done) =>
        LET x == NonNull(call.series)
            n == Len(x)
            rising == \A k \in 2..n : x[k] > x[k - 1]
            falling == \A k \in 2..n : x[k] < x[k - 1]
        IN ret.value = (IF n < 2 THEN "N/A"
                        ELSE IF rising THEN "increasing"
                        ELSE IF falling THEN "decreasing"
                        ELSE "mixed")

(***************************************************************************)
(* C19: in _make_request a response with status < 400 whose body is not     *)
(* valid JSON ends the call with DataProcessingError on that same attempt,  *)
(* whatever the attempt index: it is the last response of the call, no      *)
(* sleep and no request follows it, and it is never reported as             *)
(* NetworkError.                                                            *)
(***************************************************************************)
NotJson(u) == u.kind = "response" /\ u.status_code < 400 /\ u.body = "not_json"

C19_BadJsonEndsCall ==
    \A k \in 1..Len(responses) :
        NotJson(responses[k]) =>
            /\ k = Len(responses)
            /\ requests = k
            /\ attempt = k - 1
            /\ Len(sleeps) = k - 1
            /\ pc \in {"close", "handle", "returned"}
            /\ exc.cls = "DataProcessingError"
            /\ payload = "none"

C19_Witness ==
    /\ Len(responses) = 3
    /\ responses[1].status_code = 429
    /\ responses[2].kind = "RequestError"
    /\ NotJson(responses[3])
    /\ max_retries = 4
    /\ pc = "returned"
    /\ result.category = "Data Processing"

(***************************************************************************)
(* C20: every HTTP client opened by a tool invocation is closed by the time *)
(* the invocation returns, on every path (result, early return on empty     *)
(* data, API error, data-processing error, unexpected exception); no        *)
(* invocation ends with its client open, no request is issued on a client   *)
(* that is not open, and a closed client is never used again.               *)
(***************************************************************************)
C20_ClientClosed ==
    /\ [](pc \in {"returned", "raised"} => clientState # "open")
    /\ [][requests' # requests => (clientState = "open" /\ clientState' = "open")]_vars
    /\ [][clientState = "closed" => clientState' = "closed"]_vars

C20_Witness ==
    /\ pc = "returned"
    /\ clientState = "closed"
    /\ requests = 2
    /\ exc.cls = "InvalidURL"
    /\ result.category = "Unexpected"

(***************************************************************************)
(* C21.  However two tool invocations interleave, each has its own client,  *)
(* its own request parameters and its own attempt counter, and a step of    *)
(* one changes nothing of the other nor of the configuration they share.    *)
(* Each sends at most max_retries requests, all with its own parameters;    *)
(* its counter counts its own finished sleeps and its k-th sleep lasts      *)
(* rate_limit_delay * 2^(k-1).  Two invocations that received the same      *)
(* responses to their own requests and stand at the same point have made    *)
(* the same requests and sleeps and have the same outcome, whatever the     *)
(* other went through meanwhile.                                            *)
(***************************************************************************)
C21_OwnState(i) ==
    LET v == invocations[i]
    IN /\ v.requests <= max_retries
       /\ Len(v.responses) = v.requests
       /\ Len(v.sent) = v.requests
       /\ \A k \in 1..Len(v.sent) :
            v.sent[k] = [tool |-> Together[i].tool,
                         arg |-> Normalize(Together[i].tool, Together[i].input),
                         api_token |-> api_key]
       /\ Len(v.sleeps) = IF v.pc = "sleep" THEN v.attempt + 1 ELSE v.attempt
       /\ \A k \in 1..Len(v.sleeps) : v.sleeps[k] = rate_limit_delay * 2^(k - 1)
       /\ v.clientState = "closed" <=> v.pc \in {"handle", "returned", "raised"}

C21_SameResponsesSameCourse(i, j) ==
    LET v == invocations[i]
        w == invocations[j]
    IN (v.responses = w.responses /\ v.pc = w.pc)
        => /\ v.requests = w.requests
           /\ v.sleeps = w.sleeps
           /\ v.attempt = w.attempt
           /\ v.payload = w.payload
           /\ v.exc = w.exc
           /\ v.result = w.result

C21_OneInvocationSteps ==
    /\ max_retries' = max_retries
    /\ rate_limit_delay' = rate_limit_delay
    /\ api_key' = api_key
    /\ \E i \in DOMAIN Together :
         \A j \in DOMAIN Together \ {i} : invocations'[j] = invocations[j]

C21_Independent ==
    /\ [](invocations # NoInvocations =>
            /\ \A i \in DOMAIN Together : C21_OwnState(i)
            /\ \A i, j \in DOMAIN Together : C21_SameResponsesSameCourse(i, j))
    /\ [][C21_OneInvocationSteps]_vars

C21_Witness ==
    /\ invocations # NoInvocations
    /\ invocations["a"].pc = "returned"
    /\ invocations["a"].requests = 2
    /\ invocations["a"].sleeps = <<rate_limit_delay>>
    /\ invocations["a"].result.kind = "error"
    /\ invocations["b"].pc = "returned"
    /\ invocations["b"].requests = 1
    /\ invocations["b"].sleeps = <<>>
    /\ invocations["b"].result.kind = "data"

(***************************************************************************)
(* C22.  With max_retries >= 1, a call of _make_request that is over has    *)
(* issued at least 1 and at most max_retries requests and has slept once    *)
(* less than it has requested; every request it sent has the same endpoint  *)
(* and parameters, with api_token the configured credential; and it sleeps  *)
(* only when another attempt follows, never after the attempt that yields   *)
(* the outcome.                                                             *)
(***************************************************************************)
C22_RequestOver(v) == v.pc \in {"process", "close", "handle", "returned", "raised"}

C22_OneCall(v) ==
    /\ \A k \in 1..Len(v.sent) :
         /\ v.sent[k] = v.sent[1]
         /\ v.sent[k].api_token = api_key
    /\ Len(v.sent) = v.requests
    /\ v.pc = "sleep" => v.requests < max_retries /\ Len(v.sleeps) = v.requests
    /\ v.pc = "request" => Len(v.sleeps) = v.requests
    /\ C22_RequestOver(v) =>
         /\ v.requests >= 1
         /\ v.requests <= max_retries
         /\ Len(v.sleeps) = v.requests - 1

C22_RequestsAndSleeps ==
    (invocations # NoInvocations /\ max_retries >= 1)
        => \A i \in DOMAIN Together : C22_OneCall(invocations[i])

C22_Witness ==
    /\ invocations # NoInvocations
    /\ max_retries = 2
    /\ C22_RequestOver(invocations["a"])
    /\ invocations["a"].requests = 2
    /\ Len(invocations["a"].sleeps) = 1
    /\ invocations["a"].sent[2].api_token = "demo"
    /\ C22_RequestOver(invocations["b"])
    /\ invocations["b"].requests = 1

(***************************************************************************)
(* A tool invocation under the event loop's scheduling: a coroutine whose   *)
(* awaited request, sleep or close has completed is resumed.                *)
(***************************************************************************)
SpecFair == Spec /\ WF_vars(Next)

\* _make_request has been called: the client it belongs to was constructed
C23_Called == clientState # "none"

\* what the call of _make_request ended with, read once it is over
C23_Outcome == IF payload # "none" THEN "value" ELSE exc.cls

C24_DateOf(record) ==
    IF record.date # Absent THEN record.date
    ELSE IF record.report_date # Absent THEN record.report_date
    ELSE record.earnings_date

C24_EveryRowOnce(value, raw) ==
    LET n == Len(raw)
    IN /\ value.ok
       /\ Len(value.rows) = n
       /\ \E f \in Perms(n) :
             \A k \in 1..n :
                /\ value.rows[k].code = raw[f[k]].code.v
                /\ \A r \in 1..Len(EarningsDateColumns) :
                      LET c == EarningsDateColumns[r]
                      IN c \in value.columns =>
                            value.rows[k][c] = IF raw[f[k]][c].t = "str"
                                               THEN raw[f[k]][c].v ELSE Null

C24_UnparseableDates ==
    call.fn = "dates" =>
        /\ (ret.eod # Pending /\ SomeDateUnparseable(call.eod_data)) =>
              /\ ~ret.eod.value.ok
              /\ ret.eod.value.exc = "DataProcessingError"
              /\ ret.eod.value.rows = <<>>
        /\ (ret.eod # Pending /\ ~SomeDateUnparseable(call.eod_data)) =>
              /\ ret.eod.value.ok
              /\ Len(ret.eod.value.rows) = Len(call.eod_data)
        /\ ret.earnings # Pending =>
              C24_EveryRowOnce(ret.earnings.value, call.earnings_data)

C24_Witness ==
    /\ call.fn = "dates"
    /\ Len(call.eod_data) = 3
    /\ call.eod_data[2].date = Bad
    /\ call.eod_data[1].date = Str(2)
    /\ call.eod_data[3].date = Str(1)
    /\ \A k \in 1..3 : C24_DateOf(call.earnings_data[k]) = call.eod_data[k].date
    /\ call.earnings_data[1].report_date # Absent
    /\ call.earnings_data[1].date = Absent
    /\ ret.eod # Pending
    /\ ret.eod.value.exc = "DataProcessingError"
    /\ ret.earnings # Pending
    /\ ret.earnings.value.ok
    /\ Len(ret.earnings.value.rows) = 3
    /\ ret.earnings.value.rows[1].code = 3
    /\ ret.earnings.value.rows[2].code = 1
    /\ ret.earnings.value.rows[3].code = 2
    /\ ret.earnings.value.rows[3].report_date = Null

====
